---- MODULE Spec2Model ----
(***************************************************************************)
(* A model of the HelmRelease expansion engine of fouskoti                 *)
(* (package repository): the pairing pass, the expansion pass with its     *)
(* three chart loaders and the in-memory chart cache, the rendering of a   *)
(* chart into documents and the final stable sort.                         *)
(*                                                                         *)
(* Conventions.  Go strings that the code only compares for equality or    *)
(* order are TLA+ strings.  Go strings that the code parses, joins or      *)
(* concatenates (URLs, chart paths, cache keys) are sequences of tokens:   *)
(* "ssh://git@localhost/dummy.git" is                                      *)
(* <<"ssh", "://", "git", "@", "localhost", "/", "dummy.git">>.            *)
(* A nil pointer to a struct is the record Nil, a nil *chart.Chart is      *)
(* NilChart, a nil chart cache is NilCache.  An absent YAML field is       *)
(* NoField.                                                                *)
(***************************************************************************)
EXTENDS Integers, Sequences, FiniteSets, TLC

Nil == [nil |-> TRUE]
NilChart == 0
NilCache == (<<"<nil>">> :> 0)
NoUser == "<nil>"
NoLoader == "<nil>"
NoField == "<no field>"

(***************************************************************************)
(* Bounds of the model.                                                    *)
(***************************************************************************)
MaxDocs == 3
MaxRepoDocs == 4
MaxDepth == 4
MaxCloneDocs == 2
MaxEntries == 3
MaxSlashes == 2
MaxVersions == 2

(***************************************************************************)
(* Byte-wise order of Go strings (the operator < on strings).  StrOrder    *)
(* lists, in that order, every string the sort comparator can meet in the  *)
(* model.                                                                  *)
(***************************************************************************)
StrOrder ==
  << "",
     "-test-configmap",
     "-test-dependency-configmap",
     "-test-serviceaccount",
     "ClusterRole",
     "ConfigMap",
     "HelmRelease",
     "ServiceAccount",
     "custom-configmap",
     "helm.toolkit.fluxcd.io/v2beta2",
     "rbac.authorization.k8s.io/v1",
     "shared",
     "testns",
     "testns-other",
     "testns-other-test-another-configmap",
     "testns-other-test-another-dependency-configmap",
     "testns-other-test-another-serviceaccount",
     "testns-other-test-configmap",
     "testns-test-configmap",
     "testns-test-dependency-configmap",
     "testns-test-serviceaccount",
     "testns-wrap-inner",
     "v1" >>

Rank(s) == CHOOSE i \in 1..Len(StrOrder) : StrOrder[i] = s

StrLess(a, b) == Rank(a) < Rank(b)

(***************************************************************************)
(* Sequence helpers.                                                       *)
(***************************************************************************)
Last(s) == s[Len(s)]

Front(s) == SubSeq(s, 1, Len(s) - 1)

Range(s) == { s[i] : i \in 1..Len(s) }

\* strings.TrimRight(s, "/") on a token string.
RECURSIVE TrimRightSlash(_)
TrimRightSlash(s) ==
  IF s # << >> /\ Last(s) = "/" THEN TrimRightSlash(Front(s)) ELSE s

\* Two path elements with their separator.
Path(a, b) == <<a, "/", b>>

\* The position of the first token t in s, or 0.
IndexOf(s, t) ==
  IF t \in Range(s) THEN CHOOSE i \in 1..Len(s) : s[i] = t /\ \A j \in 1..(i-1) : s[j] # t
  ELSE 0

(***************************************************************************)
(* net/url on token strings.  A parsed URL is a record; User = NoUser is   *)
(* the nil *url.Userinfo.  "scheme://" and a leading "//" introduce an      *)
(* authority; "scheme:" followed by anything but "/" makes the rest        *)
(* opaque, and "scheme:/" a path without host (OmitHost).                  *)
(***************************************************************************)
EmptyURL ==
  [Scheme |-> "", User |-> NoUser, Host |-> "", Path |-> << >>,
   Opaque |-> << >>, OmitHost |-> FALSE]

\* url.Parse fails on a string that starts with a colon: "missing protocol
\* scheme".
InvalidURL(s) == s # << >> /\ s[1] \in {":", "://"}

\* The authority and the path of what follows "//": the tokens before the
\* first "/" are the authority; "user@host" splits at "@".
Authority(scheme, rest) ==
  LET slash == IndexOf(rest, "/")
      authority == IF slash = 0 THEN rest ELSE SubSeq(rest, 1, slash - 1)
      at == IndexOf(authority, "@")
      hostToks == IF at = 0 THEN authority
                  ELSE SubSeq(authority, at + 1, Len(authority))
  IN [Scheme |-> scheme,
      User |-> IF at = 0 THEN NoUser
               ELSE IF at = 1 THEN "" ELSE authority[1],
      Host |-> IF hostToks = << >> THEN "" ELSE hostToks[1],
      Path |-> IF slash = 0 THEN << >> ELSE SubSeq(rest, slash, Len(rest)),
      Opaque |-> << >>,
      OmitHost |-> FALSE]

\* url.Parse of a string it accepts.
urlParse(s) ==
  IF Len(s) >= 2 /\ s[2] = "://" THEN Authority(s[1], SubSeq(s, 3, Len(s)))
  ELSE IF s # << >> /\ s[1] = "//" THEN Authority("", Tail(s))
  ELSE IF Len(s) >= 2 /\ s[2] = ":"
  THEN IF Len(s) >= 3 /\ s[3] # "/"
       THEN [EmptyURL EXCEPT !.Scheme = s[1], !.Opaque = SubSeq(s, 3, Len(s))]
       ELSE [EmptyURL EXCEPT !.Scheme = s[1], !.Path = SubSeq(s, 3, Len(s)),
                             !.OmitHost = Len(s) >= 3]
  ELSE [EmptyURL EXCEPT !.Path = s]

\* (*url.URL).String: an opaque URL prints its scheme and the opaque part,
\* and no path; "//" is printed when there is a host, a path or a user,
\* unless the host is omitted.
urlString(u) ==
  IF u.Opaque # << >> THEN <<u.Scheme, ":">> \o u.Opaque
  ELSE IF /\ u.Scheme # "" /\ u.Host = "" /\ u.User = NoUser
          /\ (u.Path = << >> \/ u.OmitHost)
  THEN <<u.Scheme, ":">> \o u.Path
  ELSE (IF u.Scheme # "" \/ u.Host # "" \/ u.User # NoUser
        THEN (IF u.Scheme # "" THEN <<u.Scheme, "://">> ELSE <<"//">>)
             \o (IF u.User # NoUser THEN <<u.User, "@">> ELSE << >>)
             \o (IF u.Host # "" THEN <<u.Host>> ELSE << >>)
             \o (IF u.Path # << >> /\ u.Path[1] # "/" /\ u.Host # ""
                 THEN <<"/">> ELSE << >>)
        ELSE << >>)
       \o u.Path

\* (*url.Userinfo).Username, also on a nil receiver.
Username(u) == IF u.User = NoUser THEN "" ELSE u.User

\* (*url.URL).Hostname: the host without its port.
Hostname(u) == IF u.Host = "localhost:22" THEN "localhost" ELSE u.Host

OCIScheme == "oci"

\* A normalization that does not trim the path before it appends "/".
normalizeURLAppending(repositoryURL) ==
  IF repositoryURL = << >> THEN << >>
  ELSE LET u == urlParse(repositoryURL) IN
       IF u.Scheme = OCIScheme
       THEN urlString([u EXCEPT !.Path = TrimRightSlash(u.Path)])
       ELSE urlString([u EXCEPT !.Path = u.Path \o <<"/">>])

\* normalizeURL: the path loses its trailing slashes and, unless the scheme
\* is oci, gets exactly one back.
normalizeURL(repositoryURL) ==
  IF repositoryURL = << >> THEN << >>
  ELSE LET u == urlParse(repositoryURL) IN
       IF u.Scheme = OCIScheme
       THEN urlString([u EXCEPT !.Path = TrimRightSlash(u.Path)])
       ELSE urlString([u EXCEPT !.Path = TrimRightSlash(u.Path) \o <<"/">>])

(***************************************************************************)
(* Package path on token strings.                                         *)
(***************************************************************************)
IsAbs(p) == p # << >> /\ p[1] = "/"

\* The elements of a path, without the separators.
RECURSIVE Elements(_)
Elements(p) ==
  IF p = << >> THEN << >>
  ELSE IF p[1] = "/" THEN Elements(Tail(p))
  ELSE <<p[1]>> \o Elements(Tail(p))

\* path.Clean's treatment of "." and "..", element by element; acc is the
\* cleaned prefix.
RECURSIVE CleanElements(_, _, _)
CleanElements(elems, acc, rooted) ==
  IF elems = << >> THEN acc
  ELSE LET e == elems[1]
           rest == Tail(elems)
       IN IF e = "." THEN CleanElements(rest, acc, rooted)
          ELSE IF e = ".."
          THEN IF acc # << >> /\ Last(acc) # ".."
               THEN CleanElements(rest, Front(acc), rooted)
               ELSE IF rooted THEN CleanElements(rest, acc, rooted)
               ELSE CleanElements(rest, acc \o <<"..">>, rooted)
          ELSE CleanElements(rest, acc \o <<e>>, rooted)

RECURSIVE Separated(_)
Separated(elems) ==
  IF elems = << >> THEN << >>
  ELSE IF Len(elems) = 1 THEN elems
  ELSE <<elems[1], "/">> \o Separated(Tail(elems))

\* path.Clean.
Clean(p) ==
  LET rooted == IsAbs(p)
      out == Separated(CleanElements(Elements(p), << >>, rooted))
  IN IF rooted THEN <<"/">> \o out
     ELSE IF out = << >> THEN <<".">> ELSE out

\* path.Join of two elements: empty elements are ignored.
pathJoin(a, b) ==
  IF a = << >> /\ b = << >> THEN << >>
  ELSE IF a = << >> THEN Clean(b)
  ELSE IF b = << >> THEN Clean(a)
  ELSE Clean(a \o <<"/">> \o b)

\* joinPath: an absolute b replaces a.
joinPath(a, b) == IF IsAbs(b) THEN b ELSE pathJoin(a, b)

(***************************************************************************)
(* YAML documents.  Every input document has the same fields; a field a    *)
(* kind does not use holds its zero value.  spec.values is modelled by the *)
(* value paths it sets to true (on) and to false (off).                    *)
(***************************************************************************)
NoValues == [on |-> {}, off |-> {}]

NoSourceRef ==
  [kind |-> NoField, name |-> NoField, namespace |-> NoField,
   apiVersion |-> NoField]

BlankDoc ==
  [kind |-> "", apiVersion |-> "", namespace |-> "", name |-> "",
   sourceRef |-> NoSourceRef, chart |-> << >>, version |-> {},
   values |-> NoValues, targetNamespace |-> "", releaseName |-> "",
   url |-> << >>, type |-> NoField, ref |-> Nil]

HelmReleaseDoc(ns, name, ref, chart, version, values) ==
  [BlankDoc EXCEPT !.kind = "HelmRelease",
                   !.apiVersion = "helm.toolkit.fluxcd.io/v2beta2",
                   !.namespace = ns, !.name = name, !.sourceRef = ref,
                   !.chart = chart, !.version = version, !.values = values]

SourceRef(kind, name) == [NoSourceRef EXCEPT !.kind = kind, !.name = name]

RepositoryDoc(kind, ns, name, url) ==
  [BlankDoc EXCEPT !.kind = kind,
                   !.apiVersion = "source.toolkit.fluxcd.io/v1beta2",
                   !.namespace = ns, !.name = name, !.url = url]

\* yamlutil.GetGroup: the part of apiVersion before its "/"; the model's
\* apiVersions are whole strings, so the groups are tabulated.
GetGroup(node) ==
  CASE node.apiVersion = "helm.toolkit.fluxcd.io/v2beta2" -> "helm.toolkit.fluxcd.io"
    [] node.apiVersion = "source.toolkit.fluxcd.io/v1beta2" -> "source.toolkit.fluxcd.io"
    [] node.apiVersion = "rbac.authorization.k8s.io/v1" -> "rbac.authorization.k8s.io"
    [] OTHER -> ""

(***************************************************************************)
(* The remote repositories: what a clone of a Git URL contains, what the   *)
(* index and the archives of a Helm repository contain.  A chart is        *)
(* described by its Chart.yaml (name, version, dependencies), the value    *)
(* paths its values.yaml sets, and its template files; a template document *)
(* gives its namespace as ReleaseNamespace ("{{ .Release.Namespace }}"),   *)
(* as "" (no metadata.namespace) or literally, and its name as a suffix of *)
(* "{{ .Release.Name }}" or literally.                                     *)
(***************************************************************************)
ReleaseNamespace == "{{ .Release.Namespace }}"

TDoc(kind, apiVersion, ns, prefixed, text) ==
  [kind |-> kind, apiVersion |-> apiVersion, namespace |-> ns,
   prefixed |-> prefixed, text |-> text]

Dependency(name, repository, condition) ==
  [Name |-> name, Repository |-> repository, Condition |-> condition,
   Version |-> [exact |-> FALSE, accept |-> 1..3]]

ChartFiles(name, version, deps, templates) ==
  [name |-> name, version |-> version, dependencies |-> deps,
   defaults |-> NoValues, templates |-> templates]

ConfigMapYaml(suffix) ==
  [file |-> Path("templates", "configmap.yaml"),
   docs |-> << TDoc("ConfigMap", "v1", ReleaseNamespace, TRUE, suffix) >>]

TestChart ==
  ChartFiles("test-chart", 1,
    << Dependency("dependency-chart", <<"..", "/", "dependency-chart">>,
                  "dependency-chart.enabled") >>,
    << ConfigMapYaml("-configmap") >>)

DependencyChart ==
  ChartFiles("dependency-chart", 1,
    << Dependency("leaf-chart", <<"file", "://", "..", "/", "leaf-chart">>, "") >>,
    << ConfigMapYaml("-dependency-configmap") >>)

LeafChart ==
  ChartFiles("leaf-chart", 1, << >>,
    << [file |-> Path("templates", "serviceaccount.yaml"),
        docs |-> << TDoc("ServiceAccount", "v1", "", TRUE, "-serviceaccount") >>] >>)

\* Two documents in one file, the later one sorting first, and two files
\* rendering a document of the same kind, apiVersion, namespace and name.
MultiChart ==
  ChartFiles("multi", 1, << >>,
    << [file |-> Path("templates", "all.yaml"),
        docs |-> << TDoc("ConfigMap", "v1", ReleaseNamespace, FALSE, "shared"),
                    TDoc("ConfigMap", "v1", ReleaseNamespace, TRUE, "-configmap"),
                    TDoc("ConfigMap", "v1", ReleaseNamespace, FALSE, "shared") >>],
       [file |-> Path("templates", "extra.yaml"),
        docs |-> << TDoc("ConfigMap", "v1", ReleaseNamespace, FALSE, "shared") >>] >>)

\* A cluster-scoped document, a namespaced one without namespace, a
\* NOTES.txt, a rendering that is only white space and a file whose name
\* "rate%d.yaml" holds a formatting verb.
MiscChart ==
  ChartFiles("misc", 1, << >>,
    << [file |-> Path("templates", "rbac.yaml"),
        docs |-> << TDoc("ServiceAccount", "v1", "", TRUE, "-serviceaccount"),
                    TDoc("ClusterRole", "rbac.authorization.k8s.io/v1", "", FALSE, "shared") >>],
       [file |-> Path("templates", "NOTES.txt"),
        docs |-> << TDoc("", "", "", FALSE, "") >>],
       [file |-> Path("templates", "empty.yaml"), docs |-> << >>],
       [file |-> <<"templates", "/", "rate", "%", "d", ".yaml">>,
        docs |-> << TDoc("ConfigMap", "v1", ReleaseNamespace, TRUE, "-configmap") >>] >>)

\* A chart whose template renders a HelmRelease document.
WrapperChart ==
  ChartFiles("wrapper", 1, << >>,
    << [file |-> Path("templates", "release.yaml"),
        docs |-> << TDoc("HelmRelease", "helm.toolkit.fluxcd.io/v2beta2",
                         ReleaseNamespace, TRUE, "-inner") >>] >>)

\* Two charts of one repository that declare each other as dependency by
\* relative path.
CycleA ==
  ChartFiles("cycle-a", 1,
    << Dependency("cycle-b", <<"file", "://", "..", "/", "cycle-b">>, "") >>,
    << ConfigMapYaml("-configmap") >>)

CycleB ==
  ChartFiles("cycle-b", 1,
    << Dependency("cycle-a", <<"..", "/", "cycle-a">>, "") >>,
    << ConfigMapYaml("-dependency-configmap") >>)

\* A packaged chart whose Chart.yaml keeps the file:// repository of the
\* dependency it was packaged with.
UmbrellaChart ==
  ChartFiles("umbrella", 1,
    << Dependency("leaf-chart", <<"file", "://", "..", "/", "leaf-chart">>, "") >>,
    << ConfigMapYaml("-configmap") >>)

GitURL == <<"ssh", "://", "git", "@", "localhost", "/", "dummy.git">>

\* The working tree a clone of repoURL produces: chart directory -> chart.
\* An empty tree stands for a repository that cannot be cloned.
GitTree(repoURL) ==
  IF Hostname(urlParse(repoURL)) = "localhost"
     /\ TrimRightSlash(urlParse(repoURL).Path) = <<"/", "dummy.git">>
  THEN ( <<"charts", "/", "test-chart">> :> TestChart
      @@ <<"charts", "/", "dependency-chart">> :> DependencyChart
      @@ <<"charts", "/", "leaf-chart">> :> LeafChart
      @@ <<"charts", "/", "multi">> :> MultiChart
      @@ <<"charts", "/", "misc">> :> MiscChart
      @@ <<"charts", "/", "wrapper">> :> WrapperChart
      @@ <<"charts", "/", "cycle-a">> :> CycleA
      @@ <<"charts", "/", "cycle-b">> :> CycleB )
  ELSE << >>

HelmURL == <<"http", "://", "localhost">>

HelmURLSlash == <<"http", "://", "localhost", "/">>

\* index.yaml at a normalized repository URL: chart name -> versions.
HelmIndex(repoURL) ==
  IF repoURL = HelmURLSlash
  THEN (<<"test-chart">> :> {1, 2}) @@ (<<"multi">> :> {1})
       @@ (<<"umbrella">> :> {1})
  ELSE << >>

\* The chart in the archive of a chart version.
HelmArchive(chartName, chartVersion) ==
  IF chartName = <<"multi">> THEN MultiChart
  ELSE IF chartName = <<"umbrella">> THEN UmbrellaChart
  ELSE ChartFiles("test-chart", chartVersion, << >>, << ConfigMapYaml("-configmap") >>)

OciURL == <<"oci", "://", "registry.local", "/", "charts">>

\* The tags of a chart in an OCI registry, as versions.
OciTags(repoURL, chartName) ==
  IF repoURL = OciURL /\ chartName = <<"test-chart">> THEN {1, 2}
  ELSE IF repoURL = OciURL /\ chartName = <<"umbrella">> THEN {1}
  ELSE {}

\* The registry hosts the AWS login flow succeeds for.
OciHosts == {"registry.local"}

(***************************************************************************)
(* Version constraints are modelled by the versions they accept; an exact  *)
(* version is marked, since the OCI loader treats it specially.            *)
(***************************************************************************)
Versions == 1..3

AtLeast(n) == [exact |-> FALSE, accept |-> { v \in Versions : v >= n }]

Exactly(n) == [exact |-> TRUE, accept |-> {n}]

Max(S) == CHOOSE v \in S : \A w \in S : w <= v

(***************************************************************************)
(* Credentials.  A store maps the URL strings of its entries to            *)
(* credentials; an absent key of RepositoryCreds reads as "".              *)
(***************************************************************************)
Creds(identity, knownHosts, username, password) ==
  [identity |-> identity, known_hosts |-> knownHosts,
   username |-> username, password |-> password]

\* os.Getenv: the value of the variable, "" when it is not set.
Getenv(env, name) == IF name \in DOMAIN env THEN env[name] ELSE << >>

\* A substitution that also takes a lone "$" for a variable.
expandEveryDollar(creds, env) ==
  [key \in DOMAIN creds |->
     IF creds[key] # << >> /\ creds[key][1] = "$"
     THEN Getenv(env, Tail(creds[key]))
     ELSE creds[key]]

\* RepositoryCreds.expandEnvVars: a value that is "$" followed by at least
\* one character becomes the value of the variable of that name.
expandEnvVars(creds, env) ==
  [key \in DOMAIN creds |->
     IF creds[key] # << >> /\ creds[key][1] = "$" /\ Len(Tail(creds[key])) > 0
     THEN Getenv(env, Tail(creds[key]))
     ELSE creds[key]]

\* What FindForRepo returns: the credentials, or nil, and the error.
Found(creds, err) == [creds |-> creds, err |-> err]

\* The loop of FindForRepo: the first entry with the same scheme, host and
\* user name that the scan of the map meets, an error at an entry whose URL
\* does not parse, else nil.  scan lists the keys of the store in the order
\* the range over the Go map visits them.
RECURSIVE FirstMatch(_, _, _)
FirstMatch(credentials, repoURL, scan) ==
  IF scan = << >> THEN Found(Nil, "")
  ELSE IF InvalidURL(scan[1])
  THEN Found(Nil, "unable to parse configured repository URL")
  ELSE IF /\ repoURL.Scheme = urlParse(scan[1]).Scheme
          /\ repoURL.Host = urlParse(scan[1]).Host
          /\ Username(repoURL) = Username(urlParse(scan[1]))
  THEN Found(credentials[scan[1]], "")
  ELSE FirstMatch(credentials, repoURL, Tail(scan))

\* A lookup that only scans.
FindForRepoByScan(credentials, repoURL, scan) ==
  FirstMatch(credentials, repoURL, scan)

\* Credentials.FindForRepo: the entry under the serialized URL when there
\* is one, else the outcome of the scan.
FindForRepo(credentials, repoURL, scan) ==
  IF urlString(repoURL) \in DOMAIN credentials
  THEN Found(credentials[urlString(repoURL)], "")
  ELSE FirstMatch(credentials, repoURL, scan)

\* git.NewAuthOptions followed by its Validate: "" or the diagnostic.
NewAuthOptions(u, creds) ==
  LET identity == IF creds = Nil THEN "" ELSE creds.identity
      knownHosts == IF creds = Nil THEN "" ELSE creds.known_hosts
  IN CASE u.Scheme = "ssh" ->
            IF u.Host = "" THEN "invalid 'ssh' auth option: 'host' is required"
            ELSE IF identity = "" THEN "invalid 'ssh' auth option: 'identity' is required"
            ELSE IF knownHosts = "" THEN "invalid 'ssh' auth option: 'known_hosts' is required"
            ELSE ""
       [] u.Scheme \in {"http", "https"} -> ""
       [] u.Scheme = "" -> "no transport type set"
       [] OTHER -> "unknown transport"

(***************************************************************************)
(* The state a chart load works on.  heap holds the chart objects (a       *)
(* *chart.Chart is an index into it), cache is the chartCache map (NilCache *)
(* when caching is off), log records the calls made to the transports and  *)
(* to the file system, dirs maps each clone directory to the URL cloned    *)
(* into it, cacheRoot is the temporary directory of the load.  release is  *)
(* the index of the pair being expanded, credentials the store and scan    *)
(* the order in which a range over the store visits its keys.              *)
(***************************************************************************)
Event(st, op, url, detail) ==
  [op |-> op, url |-> url, detail |-> detail, release |-> st.release]

Logged(st, op, url, detail) ==
  [st EXCEPT !.log = Append(@, Event(st, op, url, detail))]

Result(st, chart, err) == [st |-> st, chart |-> chart, err |-> err]

\* A chart object as helmloader.LoadDir and LoadArchive build it: the
\* metadata, the templates, and no loaded dependency yet.
NewChart(files) ==
  [name |-> files.name, version |-> files.version,
   metadeps |-> files.dependencies, defaults |-> files.defaults,
   templates |-> files.templates, deps |-> << >>]

Allocated(st, files) == [st EXCEPT !.heap = Append(@, NewChart(files))]

\* chart.AddDependency.
AddDependency(st, parent, child) ==
  [st EXCEPT !.heap[parent].deps = Append(@, child)]

\* A cache that is never filled.
Forgotten(st, chartKey, chart) == st

InCache(st, chartKey) == st.cache # NilCache /\ chartKey \in DOMAIN st.cache

Stored(st, chartKey, chart) ==
  IF st.cache = NilCache THEN st
  ELSE [st EXCEPT !.cache =
          [k \in (DOMAIN st.cache) \cup {chartKey} |->
             IF k = chartKey THEN chart ELSE st.cache[k]]]

\* getRepoFactory: the loader for a repository document.
getRepoFactory(repoNode) ==
  CASE repoNode.kind = "HelmRepository" ->
         IF repoNode.type = "oci" THEN "oci" ELSE "helm"
    [] repoNode.kind = "GitRepository" -> "git"
    [] repoNode.kind = "OCIRepository" -> "oci"
    [] OTHER -> NoLoader

\* getRepoFactoryByURL: the loader for a dependency's repository URL.
getRepoFactoryByURL(repoURL) ==
  LET parsedURL == urlParse(repoURL) IN
  CASE parsedURL.Scheme \in {"https", "http"} ->
         IF Username(parsedURL) = "git" THEN "git" ELSE "helm"
    [] parsedURL.Scheme = "ssh" -> "git"
    [] parsedURL.Scheme = "oci" -> "oci"
    [] OTHER -> NoLoader

\* getCachePathForRepo: the directory of a repository under the cache root.
getCachePathForRepo(cacheRoot, repoURL) ==
  LET parsedURL == urlParse(repoURL)
      urlPath == IF parsedURL.Path # << >> /\ Last(parsedURL.Path) = "/"
                 THEN Front(parsedURL.Path) ELSE parsedURL.Path
  IN <<cacheRoot>> \o (IF urlPath = << >> THEN <<parsedURL.Host>>
                       ELSE <<parsedURL.Host, "-">> \o urlPath)

\* normalizeGitReference.
MasterRef ==
  [Branch |-> "master", Tag |-> "", SemVer |-> "", Name |-> "", Commit |-> ""]

normalizeGitReference(original) ==
  IF original # Nil /\ ( \/ original.Branch = ""
                         \/ original.Tag = ""
                         \/ original.SemVer = ""
                         \/ original.Name = ""
                         \/ original.Commit = "" )
  THEN original
  ELSE MasterRef

\* A Go string as a token string.
Tok(str) == IF str = "" THEN << >> ELSE <<str>>

\* The chartKey of the Git loader:
\* fmt.Sprintf("%s#%s#%s#%s#%s#%s#%s", repoURL, chartName, ref...).
GitChartKey(repoURL, chartName, ref) ==
  repoURL \o <<"#">> \o chartName \o <<"#">> \o Tok(ref.Branch) \o <<"#">>
    \o Tok(ref.Tag) \o <<"#">> \o Tok(ref.SemVer) \o <<"#">>
    \o Tok(ref.Name) \o <<"#">> \o Tok(ref.Commit)

\* The chartKey of the Helm and OCI loaders:
\* fmt.Sprintf("%s#%s#%s", repoURL, chartName, chartVersion).
HelmChartKey(repoURL, chartName, chartVersion) ==
  repoURL \o <<"#">> \o chartName \o <<"#", ToString(chartVersion)>>

NoStrategy ==
  [Branch |-> "", Tag |-> "", SemVer |-> "", Name |-> "", Commit |-> ""]

\* The end of cloneRepo: gitClient.Clone into repoPath.
cloneInto(st, repoPath, cloneURL) ==
  IF GitTree(cloneURL) = << >>
  THEN [st |-> st, repoPath |-> << >>, err |-> "unable to clone Git repository"]
  ELSE [st |-> [st EXCEPT !.dirs = (repoPath :> cloneURL) @@ @],
        repoPath |-> repoPath, err |-> ""]

\* fmt.Errorf("message: %w", cause).
Wrapped(message, cause) == message \o ": " \o cause

\* A rewrite for every password, whether or not there is an identity.
RewritesForPassword(parsedURL, repoCreds) ==
  /\ repoCreds # Nil
  /\ parsedURL.Scheme = "ssh"
  /\ repoCreds.password # ""

\* The condition under which cloneRepo rewrites the URL to an HTTPS one.
RewritesToHTTPS(parsedURL, repoCreds) ==
  /\ repoCreds # Nil
  /\ parsedURL.Scheme = "ssh"
  /\ repoCreds.password # ""
  /\ repoCreds.identity = ""

\* The rewrite of parsedURL.
RewrittenURL(parsedURL) ==
  [parsedURL EXCEPT !.Scheme = "https", !.Host = Hostname(parsedURL),
                    !.User = NoUser]

\* cloneOpts.CheckoutStrategy: set from the normalized reference when the
\* repository has a reference, else left at its zero value.
CheckoutStrategy(repo) ==
  IF repo.ref # Nil THEN normalizeGitReference(repo.ref) ELSE NoStrategy

\* A clone that goes on without auth options.
cloneUnauthorized(st, repo, repoPath, cloneURL, diagnostic) ==
  cloneInto(Logged(Logged(st, "NewClient", repoPath, ""),
                   "Clone", cloneURL, CheckoutStrategy(repo)),
            repoPath, cloneURL)

\* cloneRepo after git.NewAuthOptions, whose error is diagnostic: the
\* client and the clone.
cloneAuthorized(st, repo, repoPath, cloneURL, diagnostic) ==
  IF diagnostic # ""
  THEN [st |-> st, repoPath |-> << >>,
        err |-> Wrapped("unable to initialize Git auth options", diagnostic)]
  ELSE cloneInto(Logged(Logged(st, "NewClient", repoPath, ""),
                        "Clone", cloneURL, CheckoutStrategy(repo)),
                 repoPath, cloneURL)

\* cloneRepo once the credentials of the repository are found: the rewrite
\* of an ssh URL for password credentials and the auth options.
cloneRepoWith(st, repo, repoURL, parsedURL, repoCreds) ==
  LET authURL == IF RewritesToHTTPS(parsedURL, repoCreds)
                 THEN RewrittenURL(parsedURL) ELSE parsedURL
  IN cloneAuthorized(
       Logged(st, "NewAuthOptions", urlString(authURL),
              NewAuthOptions(authURL, repoCreds)),
       repo, getCachePathForRepo(st.cacheRoot, repoURL),
       IF RewritesToHTTPS(parsedURL, repoCreds) THEN urlString(authURL)
       ELSE repoURL,
       NewAuthOptions(authURL, repoCreds))

\* cloneRepo after the lookup of the credentials.
cloneRepoFound(st, repo, repoURL, found) ==
  IF found.err # ""
  THEN [st |-> st, repoPath |-> << >>,
        err |-> Wrapped("unable to find credentials for repository", found.err)]
  ELSE cloneRepoWith(st, repo, repoURL, urlParse(repoURL), found.creds)

\* gitRepoChartLoader.cloneRepo.
cloneRepo(st, repo, repoURL) ==
  cloneRepoFound(st, repo, repoURL,
                 FindForRepo(st.credentials, urlParse(repoURL), st.scan))

\* helmloader.LoadDir(path.Join(repoPath, chartName)): the chart files of
\* that directory, or Nil.  RepoRoot stands for repoPath in the join.
RepoRoot == "<repoPath>"

LoadDir(st, repoPath, chartName) ==
  LET chartPath == pathJoin(<<RepoRoot>>, chartName)
      inRepo == IF Len(chartPath) >= 2 THEN SubSeq(chartPath, 3, Len(chartPath))
                ELSE << >>
  IN IF /\ repoPath \in DOMAIN st.dirs
        /\ chartPath[1] = RepoRoot
        /\ inRepo \in DOMAIN GitTree(st.dirs[repoPath])
     THEN GitTree(st.dirs[repoPath])[inRepo]
     ELSE Nil

ChartContext(localRepoPath, chartName, loader, repoNode) ==
  [localRepoPath |-> localRepoPath, chartName |-> chartName,
   loader |-> loader, repoNode |-> repoNode]

RECURSIVE Load(_, _, _, _, _, _, _, _)
RECURSIVE loadChartDependencies(_, _, _, _, _)

\* The end of a load: the error of the dependencies, or the chart, stored
\* in the cache when there is one.
Finished(chartKey, chart, loaded) ==
  IF loaded.err # "" THEN Result(loaded.st, NilChart, loaded.err)
  ELSE Result(Stored(loaded.st, chartKey, chart), chart, "")

\* The Git loader once the repository is on disk: helmloader.LoadDir and
\* the dependencies, loaded with the chart's own context.
LoadGitFrom(cloned, files, repoNode, chartName, chartKey, fuel) ==
  IF files = Nil
  THEN Result(cloned.st, NilChart, "unable to load chart from GitRepository")
  ELSE Finished(chartKey, Len(cloned.st.heap) + 1,
                loadChartDependencies(
                  Allocated(cloned.st, files), Len(cloned.st.heap) + 1,
                  ChartContext(cloned.repoPath, chartName, "git", repoNode),
                  fuel, 1))

\* The Git loader after the cache lookup: the parent's clone when there is
\* a parent context, else a clone of its own.
LoadGitCloned(cloned, repoNode, chartName, chartKey, fuel) ==
  IF cloned.err # "" THEN Result(cloned.st, NilChart, cloned.err)
  ELSE LoadGitFrom([cloned EXCEPT
                      !.st = Logged(@, "LoadDir", cloned.repoPath, chartName)],
                   LoadDir(cloned.st, cloned.repoPath, chartName),
                   repoNode, chartName, chartKey, fuel)

LoadGitKeyed(st, repoNode, repoURL, parentContext, chartName, chartKey, fuel) ==
  IF InCache(st, chartKey) THEN Result(st, st.cache[chartKey], "")
  ELSE LoadGitCloned(IF parentContext # Nil
                     THEN [st |-> st, repoPath |-> parentContext.localRepoPath,
                           err |-> ""]
                     ELSE cloneRepo(st, repoNode, repoURL),
                     repoNode, chartName, chartKey, fuel)

\* gitRepoChartLoader.loadRepositoryChart.  decodeToObject of a nil
\* repoNode dereferences it.
LoadGit(st, repoNode, repoURLArg, parentContext, chartName, fuel) ==
  IF repoNode = Nil THEN Result(st, NilChart, "panic")
  ELSE LoadGitKeyed(st, repoNode,
                    IF repoURLArg = << >> THEN repoNode.url ELSE repoURLArg,
                    parentContext, chartName,
                    GitChartKey(IF repoURLArg = << >> THEN repoNode.url ELSE repoURLArg,
                                chartName, normalizeGitReference(repoNode.ref)),
                    fuel)

\* A load that downloads the archive before it looks into the cache.
downloadChartVersion(st, repoURL, chartName, chartVersion, fuel) ==
  IF InCache(st, HelmChartKey(repoURL, chartName, chartVersion))
  THEN Result(Logged(st, "Get", repoURL, <<chartName, chartVersion>>),
              st.cache[HelmChartKey(repoURL, chartName, chartVersion)], "")
  ELSE Finished(HelmChartKey(repoURL, chartName, chartVersion),
                Len(st.heap) + 1,
                loadChartDependencies(
                  Allocated(Logged(st, "Get", repoURL, <<chartName, chartVersion>>),
                            HelmArchive(chartName, chartVersion)),
                  Len(st.heap) + 1, Nil, fuel, 1))

\* loadChartByURL once the version is resolved against the index: the
\* cache lookup, the download of the archive and the dependencies.
loadChartVersion(st, repoURL, chartName, chartVersion, fuel) ==
  IF InCache(st, HelmChartKey(repoURL, chartName, chartVersion))
  THEN Result(st, st.cache[HelmChartKey(repoURL, chartName, chartVersion)], "")
  ELSE Finished(HelmChartKey(repoURL, chartName, chartVersion),
                Len(st.heap) + 1,
                loadChartDependencies(
                  Allocated(Logged(st, "Get", repoURL, <<chartName, chartVersion>>),
                            HelmArchive(chartName, chartVersion)),
                  Len(st.heap) + 1, Nil, fuel, 1))

\* loadChartByURL after repo.DownloadIndexFile.
loadChartIndexed(st, repoURL, chartName, chartVersionSpec, fuel) ==
  LET repoIndex == HelmIndex(repoURL)
      matching == IF chartName \in DOMAIN repoIndex
                  THEN repoIndex[chartName] \cap chartVersionSpec.accept
                  ELSE {}
  IN IF repoIndex = << >>
     THEN Result(st, NilChart, "unable to download index file")
     ELSE IF matching = {}
     THEN Result(st, NilChart, "unable to get chart from Helm repository")
     ELSE loadChartVersion(st, repoURL, chartName, Max(matching), fuel)

\* helmRepoChartLoader.loadChartByURL.
loadChartByURL(st, repoURL, chartName, chartVersionSpec, fuel) ==
  IF urlParse(repoURL).Scheme \notin {"http", "https"}
  THEN Result(st, NilChart, "unable to create chart repository object")
  ELSE loadChartIndexed(Logged(st, "DownloadIndexFile", repoURL, ""),
                        repoURL, chartName, chartVersionSpec, fuel)

\* helmRepoChartLoader.loadRepositoryChart: the URL is read from repoNode,
\* whose decoding dereferences it.
LoadHelm(st, repoNode, repoURLArg, parentContext, chartName, chartVersionSpec, fuel) ==
  IF repoNode = Nil THEN Result(st, NilChart, "panic")
  ELSE loadChartByURL(st, normalizeURL(repoNode.url), chartName,
                      chartVersionSpec, fuel)

\* ociRepoChartLoader.getChartVersion and getLatestMatchingVersion: an
\* exact version is used as it is, else the highest matching tag; 0 when
\* there is none.
getChartVersion(repoURL, chartName, chartVersionSpec) ==
  LET matching == OciTags(repoURL, chartName) \cap chartVersionSpec.accept IN
  IF chartVersionSpec.exact THEN Max(chartVersionSpec.accept)
  ELSE IF matching = {} THEN 0
  ELSE Max(matching)

\* The OCI loader once the version is resolved: the cache lookup, the
\* download of the archive and the dependencies.
LoadOciVersion(st, repoURL, chartName, chartVersion, fuel) ==
  IF chartVersion = 0
  THEN Result(st, NilChart, "unable to find version for chart")
  ELSE IF InCache(st, HelmChartKey(repoURL, chartName, chartVersion))
  THEN Result(st, st.cache[HelmChartKey(repoURL, chartName, chartVersion)], "")
  ELSE IF chartVersion \notin OciTags(repoURL, chartName)
  THEN Result(Logged(st, "Get", repoURL, <<chartName, chartVersion>>),
              NilChart, "unable to download chart")
  ELSE Finished(HelmChartKey(repoURL, chartName, chartVersion),
                Len(st.heap) + 1,
                loadChartDependencies(
                  Allocated(Logged(st, "Get", repoURL, <<chartName, chartVersion>>),
                            HelmArchive(chartName, chartVersion)),
                  Len(st.heap) + 1, Nil, fuel, 1))

\* The OCI loader after the registry login.
LoadOciLoggedIn(st, repoURL, chartName, chartVersionSpec, fuel) ==
  IF urlParse(repoURL).Host \notin OciHosts
  THEN Result(st, NilChart, "unable to log in to AWS registry")
  ELSE LoadOciVersion(IF chartVersionSpec.exact THEN st
                      ELSE Logged(st, "Tags", repoURL, chartName),
                      repoURL, chartName,
                      getChartVersion(repoURL, chartName, chartVersionSpec),
                      fuel)

\* ociRepoChartLoader.loadRepositoryChart.
LoadOci(st, repoNode, repoURLArg, parentContext, chartName, chartVersionSpec, fuel) ==
  LoadOciLoggedIn(
    Logged(st, "Login",
           normalizeURL(IF repoNode # Nil THEN repoNode.url ELSE repoURLArg), ""),
    normalizeURL(IF repoNode # Nil THEN repoNode.url ELSE repoURLArg),
    chartName, chartVersionSpec, fuel)

\* repositoryLoader.loadRepositoryChart, dispatched on the loader.  fuel
\* bounds the depth of the recursion through loadChartDependencies; a load
\* that needs more does not return.
Load(loader, st, repoNode, repoURL, parentContext, chartName, chartVersionSpec, fuel) ==
  IF fuel = 0 THEN Result(st, NilChart, "no return")
  ELSE CASE loader = "git" ->
              LoadGit(st, repoNode, repoURL, parentContext, chartName, fuel - 1)
         [] loader = "helm" ->
              LoadHelm(st, repoNode, repoURL, parentContext, chartName,
                       chartVersionSpec, fuel - 1)
         [] loader = "oci" ->
              LoadOci(st, repoNode, repoURL, parentContext, chartName,
                      chartVersionSpec, fuel - 1)

\* The URL of a dependency's repository as loadChartDependencies reads it:
\* normalizeURL, url.Parse, and a host ".." moved into the path.
dependencyURL(repoURL) ==
  LET parsed == urlParse(repoURL) IN
  IF parsed.Host = ".."
  THEN [parsed EXCEPT !.Host = "", !.Path = pathJoin(<<"..">>, parsed.Path)]
  ELSE parsed

\* A load of a dependency that hands no parent context to the loader.
loadDependencyAlone(st, dependency, repoURL, parsedURL, parentContext, fuel) ==
  IF parsedURL.Scheme \in {"file", ""}
  THEN IF parentContext = Nil THEN Result(st, NilChart, "panic")
       ELSE Load(parentContext.loader, st, parentContext.repoNode, << >>,
                 Nil,
                 joinPath(parentContext.chartName, parsedURL.Path),
                 dependency.Version, fuel)
  ELSE IF getRepoFactoryByURL(repoURL) = NoLoader
  THEN Result(st, NilChart, "unable to get loader for chart")
  ELSE Load(getRepoFactoryByURL(repoURL), st, Nil, repoURL, Nil,
            <<dependency.Name>>, dependency.Version, fuel)

\* The chart of one dependency.  A file or empty scheme goes to the
\* parent's loader, which dereferences parentContext.
loadDependency(st, dependency, repoURL, parsedURL, parentContext, fuel) ==
  IF parsedURL.Scheme \in {"file", ""}
  THEN IF parentContext = Nil THEN Result(st, NilChart, "panic")
       ELSE Load(parentContext.loader, st, parentContext.repoNode, << >>,
                 parentContext,
                 joinPath(parentContext.chartName, parsedURL.Path),
                 dependency.Version, fuel)
  ELSE IF getRepoFactoryByURL(repoURL) = NoLoader
  THEN Result(st, NilChart, "unable to get loader for chart")
  ELSE Load(getRepoFactoryByURL(repoURL), st, Nil, repoURL, Nil,
            <<dependency.Name>>, dependency.Version, fuel)

\* The loop of loadChartDependencies after the k-th dependency is loaded.
addDependency(dependencyChart, parentChart, parentContext, fuel, k) ==
  IF dependencyChart.err # ""
  THEN [st |-> dependencyChart.st, err |-> dependencyChart.err]
  ELSE loadChartDependencies(
         AddDependency(dependencyChart.st, parentChart, dependencyChart.chart),
         parentChart, parentContext, fuel, k + 1)

\* loadChartDependencies, from the k-th declared dependency on.
loadChartDependencies(st, parentChart, parentContext, fuel, k) ==
  IF k > Len(st.heap[parentChart].metadeps) THEN [st |-> st, err |-> ""]
  ELSE IF st.heap[parentChart].metadeps[k].Repository = << >>
  THEN loadChartDependencies(st, parentChart, parentContext, fuel, k + 1)
  ELSE addDependency(
         loadDependency(
           st, st.heap[parentChart].metadeps[k],
           normalizeURL(st.heap[parentChart].metadeps[k].Repository),
           dependencyURL(normalizeURL(st.heap[parentChart].metadeps[k].Repository)),
           parentContext, fuel),
         parentChart, parentContext, fuel, k + 1)

(***************************************************************************)
(* Rendering.                                                              *)
(***************************************************************************)
\* The value of a condition path in the release values coalesced over the
\* chart defaults; a path neither sets leaves the dependency enabled.
ConditionHolds(values, defaults, condition) ==
  IF condition \in values.off THEN FALSE
  ELSE IF condition \in values.on THEN TRUE
  ELSE condition \notin defaults.off

\* chartutil.ProcessDependenciesWithMerge: every dependency whose condition
\* evaluates to false is removed from the chart's metadata and from its
\* loaded dependencies, then the remaining subcharts are processed.  The
\* chart objects are changed in place.
RECURSIVE ProcessDependencies(_, _, _)
RECURSIVE ProcessEach(_, _, _, _)

ProcessEach(heap, subcharts, values, k) ==
  IF k > Len(subcharts) THEN heap
  ELSE ProcessEach(ProcessDependencies(heap, subcharts[k], values),
                   subcharts, values, k + 1)

ProcessDependencies(heap, chart, values) ==
  LET c == heap[chart]
      rm == { c.metadeps[k].Name : k \in
                { j \in 1..Len(c.metadeps) :
                    /\ c.metadeps[j].Condition # ""
                    /\ ~ConditionHolds(values, c.defaults, c.metadeps[j].Condition) } }
      cd == SelectSeq(c.deps, LAMBDA d : heap[d].name \notin rm)
      cdMetadata == SelectSeq(c.metadeps, LAMBDA r : r.Name \notin rm)
      pruned == [heap EXCEPT ![chart].deps = cd, ![chart].metadeps = cdMetadata]
  IN ProcessEach(pruned, cd, values, 1)

\* The identity as the release gives it: spec.releaseName and the metadata
\* namespace, without the defaults.
ReleaseOptionsAsGiven(release) ==
  [Name |-> release.releaseName, Namespace |-> release.namespace,
   Revision |-> 1, IsInstall |-> TRUE, IsUpgrade |-> FALSE]

\* The identity of the release handed to the template engine.
ReleaseOptions(release) ==
  LET targetNamespace == IF release.targetNamespace = "" THEN release.namespace
                         ELSE release.targetNamespace
      releaseName == IF release.releaseName = ""
                     THEN targetNamespace \o "-" \o release.name
                     ELSE release.releaseName
  IN [Name |-> releaseName, Namespace |-> targetNamespace, Revision |-> 1,
      IsInstall |-> TRUE, IsUpgrade |-> FALSE]

\* One template document rendered for a release.
RenderedDoc(tdoc, options) ==
  [kind |-> tdoc.kind, apiVersion |-> tdoc.apiVersion,
   namespace |-> IF tdoc.namespace = ReleaseNamespace THEN options.Namespace
                 ELSE tdoc.namespace,
   name |-> IF tdoc.prefixed THEN options.Name \o tdoc.text ELSE tdoc.text]

\* engine.Render: the map from template key to rendered text, as a set of
\* entries.  The key of a template is its path from the root chart; the
\* text is the sequence of its documents.
RECURSIVE Render(_, _, _, _)
Render(heap, chart, prefix, options) ==
  LET c == heap[chart]
      own == { [key |-> prefix \o <<"/">> \o c.templates[k].file,
                text |-> [j \in 1..Len(c.templates[k].docs) |->
                            RenderedDoc(c.templates[k].docs[j], options)]] :
               k \in 1..Len(c.templates) }
  IN own \cup UNION { Render(heap, c.deps[k],
                            prefix \o <<"/", "charts", "/", heap[c.deps[k]].name>>,
                            options) : k \in 1..Len(c.deps) }

\* The sequences that enumerate a set: the orders in which a range over a
\* Go map can visit its entries.
Orderings(S) ==
  { s \in [1..Cardinality(S) -> S] : \A i, j \in 1..Cardinality(S) : s[i] = s[j] => i = j }

\* filepath.Base of a template key: what follows its last separator.
RECURSIVE Base(_)
Base(key) ==
  IF "/" \in Range(key) THEN Base(SubSeq(key, IndexOf(key, "/") + 1, Len(key)))
  ELSE key

\* fmt.Sprintf(format) without operands: "%%" prints "%", a verb prints
\* "%!verb(MISSING)", a "%" at the end prints "%!(NOVERB)", and the rest
\* prints as it is.
RECURSIVE Sprintf(_)
Sprintf(format) ==
  IF format = << >> THEN << >>
  ELSE IF format[1] # "%" THEN <<format[1]>> \o Sprintf(Tail(format))
  ELSE IF Len(format) = 1 THEN <<"%!(NOVERB)">>
  ELSE IF format[2] = "%" THEN <<"%">> \o Sprintf(SubSeq(format, 3, Len(format)))
  ELSE <<"%!", format[2], "(MISSING)">> \o Sprintf(SubSeq(format, 3, Len(format)))

\* The documents read from one manifest: kio.ByteReader.Read and the head
\* comment.  origin records where a document comes from: the pair, the
\* template key, the position in the file and the namespace as rendered.
ParsedDocs(entry, release) ==
  [j \in 1..Len(entry.text) |->
     [kind |-> entry.text[j].kind, apiVersion |-> entry.text[j].apiVersion,
      namespace |-> entry.text[j].namespace, name |-> entry.text[j].name,
      HeadComment |-> Sprintf(<<"Source: ">> \o entry.key),
      origin |-> [release |-> release, key |-> entry.key, pos |-> j,
                  rendered |-> entry.text[j].namespace]]]

\* The loop over the rendered manifests, in the order the range visits them.
RECURSIVE Collect(_, _)
Collect(order, release) ==
  IF order = << >> THEN << >>
  ELSE (IF order[1].text = << >> \/ Base(order[1].key) = <<"NOTES.txt">>
        THEN << >>
        ELSE ParsedDocs(order[1], release))
       \o Collect(Tail(order), release)

\* The kinds the namespace filter of kustomize leaves without namespace.
ClusterScoped == {"ClusterRole", "ClusterRoleBinding", "Namespace"}

\* No namespace filter.
Unfiltered(doc, ns) == doc

\* namespace.Filter with UnsetOnly, applied to one document.
SetNamespace(doc, ns) ==
  IF doc.namespace = "" /\ doc.kind \notin ClusterScoped
  THEN [doc EXCEPT !.namespace = ns]
  ELSE doc

(***************************************************************************)
(* The comparison function of the final sort, and slices.SortStableFunc as *)
(* a stable insertion sort.                                                *)
(***************************************************************************)
Compare(a, b) ==
  IF StrLess(a.kind, b.kind) THEN -1
  ELSE IF StrLess(b.kind, a.kind) THEN 1
  ELSE IF StrLess(a.apiVersion, b.apiVersion) THEN -1
  ELSE IF StrLess(b.apiVersion, a.apiVersion) THEN 1
  ELSE IF StrLess(a.namespace, b.namespace) THEN -1
  ELSE IF StrLess(b.namespace, a.namespace) THEN 1
  ELSE IF StrLess(a.name, b.name) THEN -1
  ELSE IF StrLess(b.name, a.name) THEN 1
  ELSE 0

\* An insertion that puts x in front of the elements equal to it.
RECURSIVE InsertBeforeEqual(_, _)
InsertBeforeEqual(s, x) ==
  IF s = << >> THEN <<x>>
  ELSE IF Compare(x, Last(s)) <= 0
  THEN Append(InsertBeforeEqual(Front(s), x), Last(s))
  ELSE Append(s, x)

\* x goes after every element of the sorted s that is not greater than it.
RECURSIVE InsertSorted(_, _)
InsertSorted(s, x) ==
  IF s = << >> THEN <<x>>
  ELSE IF Compare(x, Last(s)) < 0
  THEN Append(InsertSorted(Front(s), x), Last(s))
  ELSE Append(s, x)

\* slices.SortFunc in place of slices.SortStableFunc: a sort that does not
\* keep the order of equal elements.
RECURSIVE SortFunc(_)
SortFunc(s) ==
  IF s = << >> THEN << >>
  ELSE InsertBeforeEqual(SortFunc(Front(s)), Last(s))

RECURSIVE SortStableFunc(_)
SortStableFunc(s) ==
  IF s = << >> THEN << >>
  ELSE InsertSorted(SortStableFunc(Front(s)), Last(s))

(***************************************************************************)
(* expandHelmRelease, up to the rendered manifests.                        *)
(***************************************************************************)
TempDirs(log) == { i \in 1..Len(log) : log[i].op = "MkdirTemp" }

\* The deferred os.RemoveAll(cacheRoot).
Removed(st) == Logged([st EXCEPT !.dirs = << >>], "RemoveAll", <<st.cacheRoot>>, "")

\* The end of loadRepositoryChart: the deferred removal of the cache root.
\* A load that does not return removes nothing.
Unloaded(loaded) ==
  IF loaded.err = "no return" THEN loaded
  ELSE Result(Removed(loaded.st), loaded.chart, loaded.err)

\* loadRepositoryChart: a temporary cache root, the loader of the
\* repository's kind, the load, and the removal of the cache root.
loadRepositoryChart(st, release, repoNode) ==
  IF getRepoFactory(repoNode) = NoLoader
  THEN Unloaded(Result(Logged([st EXCEPT !.cacheRoot = Cardinality(TempDirs(st.log)) + 1],
                              "MkdirTemp", <<Cardinality(TempDirs(st.log)) + 1>>, ""),
                       NilChart, "unknown kind for repository"))
  ELSE Unloaded(Load(getRepoFactory(repoNode),
                     Logged([st EXCEPT !.cacheRoot = Cardinality(TempDirs(st.log)) + 1],
                            "MkdirTemp", <<Cardinality(TempDirs(st.log)) + 1>>, ""),
                     repoNode, << >>, Nil, release.chart, release.version,
                     MaxDepth))

\* The nil *chartutil.KubeVersion.
NoKubeVersion == "<nil>"

\* chartutil.DefaultCapabilities: the kube version of the client library
\* and the well-known API versions.
DefaultKubeVersion == "v1.20.0"

DefaultVersionSet == {"v1", "apps/v1", "policy/v1"}

\* The capabilities handed to the templates: a copy of the defaults, the
\* kube version when one is supplied, and the supplied API versions, when
\* there are any, as the version set.
Capabilities(kubeVersion, apiVersions) ==
  [KubeVersion |-> IF kubeVersion # NoKubeVersion THEN kubeVersion
                   ELSE DefaultKubeVersion,
   APIVersions |-> IF Len(apiVersions) > 0 THEN Range(apiVersions)
                   ELSE DefaultVersionSet]

\* expandHelmRelease after the dependencies of the chart are processed:
\* chartutil.ToRenderValues with the identity of the release and the
\* capabilities, and engine.Render.
Rendered(st, processed, chart, releaseNode) ==
  [st |-> Logged(Logged([st EXCEPT !.heap = processed], "ToRenderValues",
                        <<processed[chart].name>>, ReleaseOptions(releaseNode)),
                 "Render", <<processed[chart].name>>,
                 Capabilities(st.kubeVersion, st.apiVersions)),
   err |-> "",
   manifests |-> Render(processed, chart, <<processed[chart].name>>,
                        ReleaseOptions(releaseNode))]

\* expandHelmRelease after the chart is loaded.
ExpandedFrom(loaded, releaseNode) ==
  IF loaded.err # ""
  THEN [st |-> loaded.st, err |-> loaded.err, manifests |-> {}]
  ELSE Rendered(loaded.st,
                ProcessDependencies(loaded.st.heap, loaded.chart, releaseNode.values),
                loaded.chart, releaseNode)

\* An expansion that creates the temporary directory before it looks at the
\* repository.
ExpandedLate(st, releaseNode, repoNode) ==
  IF repoNode = Nil
  THEN [st |-> Removed(Logged([st EXCEPT !.cacheRoot = 1], "MkdirTemp", <<1>>, "")),
        err |-> "missing chart repository", manifests |-> {}]
  ELSE ExpandedFrom(loadRepositoryChart(st, releaseNode, repoNode), releaseNode)

\* expandHelmRelease from its start to engine.Render: the error, or the
\* chart objects after the removal of the disabled dependencies and the
\* rendered manifests.
Expanded(st, releaseNode, repoNode) ==
  IF repoNode = Nil
  THEN [st |-> st, err |-> "missing chart repository", manifests |-> {}]
  ELSE ExpandedFrom(loadRepositoryChart(st, releaseNode, repoNode), releaseNode)

\* The rest of expandHelmRelease: the documents of the manifests, visited
\* in the given order, after the namespace filter.
Documents(order, release, releaseNode) ==
  LET results == Collect(order, release) IN
  [j \in 1..Len(results) |-> SetNamespace(results[j], releaseNode.namespace)]

(***************************************************************************)
(* The pairing pass.                                                       *)
(***************************************************************************)
IsHelmRelease(node) ==
  GetGroup(node) = "helm.toolkit.fluxcd.io" /\ node.kind = "HelmRelease"

\* A lookup that does not compare the namespaces.
AnyNamespaceRepository(nodes, helmRelease) ==
  LET ref == helmRelease.sourceRef
      matching == { i \in 1..Len(nodes) :
                      nodes[i].kind = ref.kind /\ nodes[i].name = ref.name }
  IN IF ref.kind = NoField
     THEN [repo |-> Nil, err |-> "unable to get kind for the repository"]
     ELSE IF ref.name = NoField
     THEN [repo |-> Nil, err |-> "unable to get name for the repository"]
     ELSE IF matching = {} THEN [repo |-> Nil, err |-> ""]
     ELSE [repo |-> nodes[CHOOSE i \in matching : \A j \in matching : i <= j],
           err |-> ""]

\* getRepositoryForHelmRelease: an error when sourceRef has no kind or no
\* name, else the first matching node, else nil without error.
getRepositoryForHelmRelease(nodes, helmRelease) ==
  LET ref == helmRelease.sourceRef
      repoNamespace == IF ref.namespace = NoField THEN helmRelease.namespace
                       ELSE ref.namespace
      repoApiVersion == IF ref.apiVersion = NoField THEN "" ELSE ref.apiVersion
      matching == { i \in 1..Len(nodes) :
                      /\ nodes[i].kind = ref.kind
                      /\ nodes[i].name = ref.name
                      /\ nodes[i].namespace = repoNamespace
                      /\ (repoApiVersion = "" \/ nodes[i].apiVersion = repoApiVersion) }
  IN IF ref.kind = NoField
     THEN [repo |-> Nil, err |-> "unable to get kind for the repository"]
     ELSE IF ref.name = NoField
     THEN [repo |-> Nil, err |-> "unable to get name for the repository"]
     ELSE IF matching = {} THEN [repo |-> Nil, err |-> ""]
     ELSE [repo |-> nodes[CHOOSE i \in matching : \A j \in matching : i <= j],
           err |-> ""]

ReleaseId(node) == <<node.namespace, node.name>>

\* A pairing that leaves a release whose repository cannot be looked up to
\* the expansion pass, paired with no repository.
RECURSIVE PairFromLenient(_, _, _, _)
PairFromLenient(nodes, helmReleases, acc, k) ==
  IF k > Len(helmReleases) THEN [pairs |-> acc, err |-> Nil]
  ELSE PairFromLenient(
         nodes, helmReleases,
         Append(acc, [release |-> helmReleases[k],
                      repo |-> getRepositoryForHelmRelease(nodes, helmReleases[k]).repo]),
         k + 1)

\* The second loop of releaseRepoFilter.Filter, from the k-th release on.
RECURSIVE PairFrom(_, _, _, _)
PairFrom(nodes, helmReleases, acc, k) ==
  IF k > Len(helmReleases) THEN [pairs |-> acc, err |-> Nil]
  ELSE LET found == getRepositoryForHelmRelease(nodes, helmReleases[k]) IN
       IF found.err # ""
       THEN [pairs |-> acc,
             err |-> [release |-> ReleaseId(helmReleases[k]),
                      stage |-> "unable to find repository for HelmRelease",
                      cause |-> found.err]]
       ELSE PairFrom(nodes, helmReleases,
                     Append(acc, [release |-> helmReleases[k], repo |-> found.repo]),
                     k + 1)

(***************************************************************************)
(* The documents and the credential stores the inputs are drawn from.      *)
(***************************************************************************)
GitLocal == RepositoryDoc("GitRepository", "testns", "local", GitURL)

GitLocal2 == RepositoryDoc("GitRepository", "testns-other", "local-2", GitURL)

HelmLocal == RepositoryDoc("HelmRepository", "testns", "local", HelmURL)

HelmOther ==
  RepositoryDoc("HelmRepository", "testns-other", "local-other", HelmURLSlash)

InTestns(kind, name) == [SourceRef(kind, name) EXCEPT !.namespace = "testns"]

RelMulti ==
  HelmReleaseDoc("testns", "test", SourceRef("GitRepository", "local"),
                 Path("charts", "multi"), AtLeast(1), NoValues)

RelMisc ==
  HelmReleaseDoc("testns-other", "test-another", InTestns("GitRepository", "local"),
                 Path("charts", "misc"), AtLeast(1), NoValues)

RelNoNamespace ==
  HelmReleaseDoc("", "test", InTestns("GitRepository", "local"),
                 Path("charts", "misc"), AtLeast(1), NoValues)

\* A release whose sourceRef names a repository of another namespace.
RelMissing ==
  HelmReleaseDoc("testns-other", "test-another", SourceRef("GitRepository", "local"),
                 Path("charts", "test-chart"), AtLeast(1), NoValues)

RelNoKind ==
  HelmReleaseDoc("testns", "test", [NoSourceRef EXCEPT !.name = "local"],
                 Path("charts", "test-chart"), AtLeast(1), NoValues)

PlainConfigMap ==
  [BlankDoc EXCEPT !.kind = "ConfigMap", !.apiVersion = "v1",
                   !.namespace = "testns", !.name = "shared"]

RelGitA ==
  HelmReleaseDoc("testns", "test", SourceRef("GitRepository", "local"),
                 Path("charts", "test-chart"), AtLeast(1), NoValues)

RelGitB ==
  HelmReleaseDoc("testns-other", "test-another", SourceRef("GitRepository", "local-2"),
                 Path("charts", "test-chart"), AtLeast(1),
                 [on |-> {}, off |-> {"dependency-chart.enabled"}])

RelGitDep ==
  HelmReleaseDoc("testns", "test", SourceRef("GitRepository", "local"),
                 Path("charts", "dependency-chart"), AtLeast(1), NoValues)

RelHelmA ==
  HelmReleaseDoc("testns", "test", SourceRef("HelmRepository", "local"),
                 <<"test-chart">>, AtLeast(1), NoValues)

RelHelmB ==
  HelmReleaseDoc("testns-other", "test-another", SourceRef("HelmRepository", "local-other"),
                 <<"test-chart">>, AtLeast(2), NoValues)

RelHelmOld ==
  HelmReleaseDoc("testns", "test", SourceRef("HelmRepository", "local"),
                 <<"test-chart">>, Exactly(1), NoValues)

\* Releases with spec.targetNamespace, spec.releaseName, and both.
RelTarget == [RelMulti EXCEPT !.targetNamespace = "testns-other"]

RelNamed == [RelMulti EXCEPT !.releaseName = "custom"]

RelTargetNamed ==
  [RelMulti EXCEPT !.targetNamespace = "testns-other", !.releaseName = "custom"]

Universe ==
  { RelMulti, RelMisc, RelNoNamespace, RelMissing, RelNoKind, GitLocal,
    PlainConfigMap }

GitUniverse == { RelGitA, RelGitB, RelGitDep, GitLocal, GitLocal2 }

\* A release of the chart that renders a HelmRelease document.
RelWrapper ==
  HelmReleaseDoc("testns", "wrap", SourceRef("GitRepository", "local"),
                 Path("charts", "wrapper"), AtLeast(1), NoValues)

NestedUniverse == { RelWrapper, RelMulti, GitLocal }

\* A release of a chart in a dependency cycle.
RelCycle ==
  HelmReleaseDoc("testns", "test", SourceRef("GitRepository", "local"),
                 Path("charts", "cycle-a"), AtLeast(1), NoValues)

CycleUniverse == { RelCycle, RelGitDep, RelMulti, GitLocal }

\* Releases of the packaged chart in a Helm repository and in an OCI
\* registry.
OciOther ==
  [RepositoryDoc("HelmRepository", "testns-other", "local-other", OciURL)
     EXCEPT !.type = "oci"]

RelHelmUmbrella ==
  HelmReleaseDoc("testns", "test", SourceRef("HelmRepository", "local"),
                 <<"umbrella">>, AtLeast(1), NoValues)

RelOciUmbrella ==
  HelmReleaseDoc("testns-other", "test-another",
                 SourceRef("HelmRepository", "local-other"),
                 <<"umbrella">>, AtLeast(1), NoValues)

ParentUniverse ==
  { RelHelmUmbrella, RelOciUmbrella, RelHelmA, HelmLocal, OciOther }

HelmUniverse == { RelHelmA, RelHelmB, RelHelmOld, HelmLocal, HelmOther }

\* GitRepository documents testns/local with the forms a reference takes
\* and the forms a URL takes.
GitRef(branch, tag, semver, name, commit) ==
  [Branch |-> branch, Tag |-> tag, SemVer |-> semver, Name |-> name,
   Commit |-> commit]

GitRefEmpty == [GitLocal EXCEPT !.ref = GitRef("", "", "", "", "")]

GitRefBranch == [GitLocal EXCEPT !.ref = GitRef("main", "", "", "", "")]

GitRefTagCommit == [GitLocal EXCEPT !.ref = GitRef("", "v1", "", "", "abc")]

GitRefFull ==
  [GitLocal EXCEPT !.ref = GitRef("main", "v1", ">=1", "refs/heads/main", "abc")]

GitPort ==
  [GitLocal EXCEPT !.url = <<"ssh", "://", "git", "@", "localhost:22", "/", "dummy.git">>]

GitHttps == [GitLocal EXCEPT !.url = <<"https", "://", "localhost", "/", "dummy.git">>]

GitNoHost == [GitLocal EXCEPT !.url = <<"ssh", "://", "/", "dummy.git">>]

CloneUniverse ==
  { RelGitA, GitLocal, GitRefEmpty, GitRefBranch, GitRefTagCommit, GitRefFull,
    GitPort, GitHttps, GitNoHost }

ReleaseUniverse == { RelMulti, RelTarget, RelNamed, RelTargetNamed, GitLocal }

\* The store of the tests: an SSH identity for the Git URL.
DummySSHCreds == (GitURL :> Creds("dummy", "dummy", "", ""))

\* A user name and a password, and no identity.
PasswordCreds == (GitURL :> Creds("", "", "git", "secret"))

NoCredentials == << >>

\* An identity and a password.
IdentityAndPassword == (GitURL :> Creds("dummy", "dummy", "git", "secret"))

\* A password for every repository of the host, with and without the port:
\* entries that match the Git URLs by scheme, host and user name only.
HostPassword ==
  (<<"ssh", "://", "git", "@", "localhost", "/">> :> Creds("", "", "git", "secret"))
  @@ (<<"ssh", "://", "git", "@", "localhost:22", "/">> :> Creds("", "", "git", "secret"))

\* An identity without known hosts.
NoKnownHosts == (GitURL :> Creds("dummy", "", "", ""))

\* The repository's URL with a trailing slash, a GitRepository document with
\* it and a release of a chart of that repository.
GitURLSlash == GitURL \o <<"/">>

GitSlash ==
  RepositoryDoc("GitRepository", "testns-other", "local-slash", GitURLSlash)

RelGitSlash ==
  HelmReleaseDoc("testns-other", "test-another",
                 SourceRef("GitRepository", "local-slash"),
                 Path("charts", "test-chart"), AtLeast(1), NoValues)

SlashUniverse == { RelGitA, RelGitSlash, GitLocal, GitSlash }

\* An identity for the repository's URL and a password for another
\* repository of the same host and user.
IdentityAndOtherPassword ==
  (GitURL :> Creds("dummy", "dummy", "", ""))
  @@ (<<"ssh", "://", "git", "@", "localhost", "/", "other.git">>
        :> Creds("", "", "git", "secret"))

(***************************************************************************)
(* The state of a run of ExpandHelmReleases.                               *)
(***************************************************************************)
VARIABLES
  nodes,        \* the documents read from the input
  credentials,  \* the credential store
  chartCache,   \* the chart cache: chartKey -> chart, or NilCache
  heap,         \* the chart objects the cache refers to
  pairs,        \* the pairs of the pairing pass
  next,         \* the index of the pair the renderer expands next
  result,       \* the documents generated so far
  output,       \* the documents written to the output
  log,          \* the calls to the transports and the file system
  err,          \* the error ExpandHelmReleases returns, or Nil
  pc,           \* the position of the pipeline
  call,         \* a function of the package applied on its own, or Nil
  ret,          \* what the applications of that function have returned
  kubeVersion,  \* the kube version the caller supplies, or NoKubeVersion
  apiVersions   \* the API versions the caller supplies

vars ==
  <<nodes, credentials, chartCache, heap, pairs, next, result, output, log,
    err, pc, call, ret, kubeVersion, apiVersions>>

Inputs(universe, maxLen) == UNION { [1..n -> universe] : n \in 0..maxLen }

\* The start of a run but for the versions the caller supplies.
InitRun(universe, maxLen, stores) ==
  /\ nodes \in Inputs(universe, maxLen)
  /\ credentials \in stores
  /\ chartCache \in {NilCache, << >>}
  /\ heap = << >>
  /\ pairs = << >>
  /\ next = 1
  /\ result = << >>
  /\ output = << >>
  /\ log = << >>
  /\ err = Nil
  /\ pc = "filter1"
  /\ call = Nil
  /\ ret = << >>

\* A run without kube version and without API versions.
InitWith(universe, maxLen, stores) ==
  /\ InitRun(universe, maxLen, stores)
  /\ kubeVersion = NoKubeVersion
  /\ apiVersions = << >>

\* The runs of one release of the Git repository with and without a kube
\* version and with zero to MaxVersions API versions.
InitCaps ==
  /\ InitRun({RelGitA, GitLocal}, MaxCloneDocs, {DummySSHCreds})
  /\ kubeVersion \in {NoKubeVersion, "v1.222.0"}
  /\ apiVersions \in Inputs({"v2", "policy/v1", "batch/v9"}, MaxVersions)

Init ==
  InitWith(Universe, MaxDocs, {DummySSHCreds, PasswordCreds, NoCredentials})

InitGit == InitWith(GitUniverse, MaxRepoDocs, {DummySSHCreds})

InitHelm == InitWith(HelmUniverse, MaxRepoDocs, {NoCredentials})

InitNested == InitWith(NestedUniverse, MaxDocs, {DummySSHCreds})

InitParent == InitWith(ParentUniverse, MaxRepoDocs, {NoCredentials})

InitCycle == InitWith(CycleUniverse, MaxDocs, {DummySSHCreds})

InitSlash ==
  InitWith(SlashUniverse, MaxRepoDocs, {IdentityAndOtherPassword})

InitClone ==
  InitWith(CloneUniverse, MaxCloneDocs,
           {DummySSHCreds, PasswordCreds, NoCredentials, IdentityAndPassword,
            HostPassword, NoKnownHosts})

InitRelease == InitWith(ReleaseUniverse, MaxDocs, {DummySSHCreds})

\* The outcome of the pairing pass.  kio.Pipeline stops, without error and
\* without writing, when a filter returns no document.
Paired(paired) ==
  /\ pairs' = paired.pairs
  /\ err' = paired.err
  /\ pc' = IF paired.err # Nil THEN "failed"
           ELSE IF nodes = << >> THEN "done"
           ELSE "filter2"

\* releaseRepoFilter.Filter.
ReleaseRepoFilter ==
  /\ pc = "filter1"
  /\ Paired(PairFrom(nodes, SelectSeq(nodes, IsHelmRelease), << >>, 1))
  /\ UNCHANGED <<nodes, credentials, chartCache, heap, next, result, output, log,
                 call, ret, kubeVersion, apiVersions>>

\* The documents of a release as they are appended to the result; emitted
\* records the position at which a document is appended.
Emitted(expanded, from) ==
  [j \in 1..Len(expanded) |->
     [kind |-> expanded[j].kind, apiVersion |-> expanded[j].apiVersion,
      namespace |-> expanded[j].namespace, name |-> expanded[j].name,
      HeadComment |-> expanded[j].HeadComment, origin |-> expanded[j].origin,
      emitted |-> from + j]]

\* The state a chart load starts from.
LoadState(scan) ==
  [heap |-> heap, cache |-> chartCache, log |-> log, dirs |-> << >>,
   cacheRoot |-> 0, release |-> next, credentials |-> credentials,
   scan |-> scan, kubeVersion |-> kubeVersion, apiVersions |-> apiVersions]

\* A loop that notes the error of a release and goes on with the next.
ExpandOn(pair, expanded) ==
  /\ log' = expanded.st.log
  /\ chartCache' = expanded.st.cache
  /\ heap' = IF chartCache = NilCache THEN << >> ELSE expanded.st.heap
  /\ IF expanded.err # ""
     THEN /\ err' = [release |-> ReleaseId(pair.release),
                     stage |-> "unable to expand Helm release",
                     cause |-> expanded.err]
          /\ next' = next + 1
          /\ UNCHANGED <<pc, result>>
     ELSE /\ \E order \in Orderings(expanded.manifests) :
               result' = result \o Emitted(Documents(order, next, pair.release),
                                           Len(result))
          /\ next' = next + 1
          /\ UNCHANGED <<pc, err>>

\* The effect of expandHelmRelease for the pair: its error ends the run,
\* else its documents, read in the order the range over the manifests
\* visits them, are appended to the result.
Expand(pair, expanded) ==
  /\ log' = expanded.st.log
  /\ chartCache' = expanded.st.cache
  /\ heap' = IF chartCache = NilCache THEN << >> ELSE expanded.st.heap
  /\ IF expanded.err # ""
     THEN /\ pc' = IF expanded.err = "panic" THEN "panicked"
                   ELSE IF expanded.err = "no return" THEN "hung"
                   ELSE "failed"
          /\ err' = [release |-> ReleaseId(pair.release),
                     stage |-> "unable to expand Helm release",
                     cause |-> expanded.err]
          /\ UNCHANGED <<next, result>>
     ELSE /\ \E order \in Orderings(expanded.manifests) :
               result' = result \o Emitted(Documents(order, next, pair.release),
                                           Len(result))
          /\ next' = next + 1
          /\ UNCHANGED <<pc, err>>

\* One iteration of the loop of releaseRepoRenderer.Filter: expandHelmRelease
\* for the next pair.
ExpandRelease ==
  /\ pc = "filter2"
  /\ next <= Len(pairs)
  /\ \E scan \in Orderings(DOMAIN credentials) :
       Expand(pairs[next],
              Expanded(LoadState(scan), pairs[next].release, pairs[next].repo))
  /\ UNCHANGED <<nodes, credentials, pairs, output, call, ret, kubeVersion,
                 apiVersions>>

\* The generated documents put in front of the input documents.
Prepended(input, generated) == generated \o input

\* append(nodes, result...): what releaseRepoRenderer.Filter returns.
Appended(input, generated) == input \o generated

\* A renderer that, at the end of its loop, pairs the HelmRelease documents
\* it has generated with the repository of the first pair and goes on.
SortAndRepeat ==
  /\ pc = "filter2"
  /\ next > Len(pairs)
  /\ IF /\ Len(pairs) = Len(SelectSeq(nodes, IsHelmRelease))
        /\ SelectSeq(result, IsHelmRelease) # << >>
     THEN /\ pairs' = Append(pairs,
                            [release |->
                               HelmReleaseDoc(
                                 SelectSeq(result, IsHelmRelease)[1].namespace,
                                 SelectSeq(result, IsHelmRelease)[1].name,
                                 pairs[1].release.sourceRef,
                                 pairs[1].release.chart,
                                 pairs[1].release.version, NoValues),
                             repo |-> pairs[1].repo])
          /\ UNCHANGED <<result, pc>>
     ELSE /\ result' = Appended(nodes, SortStableFunc(result))
          /\ pc' = "write"
          /\ UNCHANGED pairs
  /\ UNCHANGED <<nodes, credentials, chartCache, heap, next, output, log, err,
                 call, ret, kubeVersion, apiVersions>>

\* The end of releaseRepoRenderer.Filter: the stable sort of the generated
\* documents and their appending to the input documents.
SortAndAppend ==
  /\ pc = "filter2"
  /\ next > Len(pairs)
  /\ result' = Appended(nodes, SortStableFunc(result))
  /\ pc' = "write"
  /\ UNCHANGED <<nodes, credentials, chartCache, heap, pairs, next, output, log, err,
                 call, ret, kubeVersion, apiVersions>>

\* kio.ByteWriter.Write of the documents the last filter returned.
Write ==
  /\ pc = "write"
  /\ output' = result
  /\ pc' = "done"
  /\ UNCHANGED <<nodes, credentials, chartCache, heap, pairs, next, result, log, err,
                 call, ret, kubeVersion, apiVersions>>

Next == ReleaseRepoFilter \/ ExpandRelease \/ SortAndAppend \/ Write

Spec == Init /\ [][Next]_vars

SpecGit == InitGit /\ [][Next]_vars

SpecHelm == InitHelm /\ [][Next]_vars

SpecRelease == InitRelease /\ [][Next]_vars

SpecClone == InitClone /\ [][Next]_vars

SpecSlash == InitSlash /\ [][Next]_vars

SpecCaps == InitCaps /\ [][Next]_vars

SpecNested == InitNested /\ [][Next]_vars

SpecParent == InitParent /\ [][Next]_vars

SpecCycle == InitCycle /\ [][Next]_vars

(***************************************************************************)
(* The functions of the package applied on their own: the lookup of        *)
(* credentials, the substitution of environment variables, the             *)
(* normalization of URLs and the chart keys.  call holds the function and  *)
(* its operands, ret the values its applications have returned.            *)
(***************************************************************************)
\* The keys of the stores: two repositories and the root of one host and
\* user, the same host with another scheme and without user, and a key
\* that does not parse.
StoreKeys ==
  { GitURL,
    <<"ssh", "://", "git", "@", "localhost", "/", "other.git">>,
    <<"https", "://", "localhost", "/", "dummy.git">>,
    <<"ssh", "://", "localhost", "/", "dummy.git">>,
    <<"://", "localhost">> }

LookupURLs ==
  { GitURL,
    <<"ssh", "://", "git", "@", "localhost", "/", "other.git">>,
    <<"ssh", "://", "git", "@", "localhost", "/", "third.git">>,
    <<"https", "://", "localhost", "/", "dummy.git">>,
    <<"ssh", "://", "localhost", "/", "third.git">> }

\* The stores of at most MaxEntries entries, each entry with credentials of
\* its own.
Stores ==
  { [k \in S |-> Creds(ToString(k), "dummy", "", "")] :
      S \in { T \in SUBSET StoreKeys : Cardinality(T) <= MaxEntries } }

FindCalls ==
  { [fn |-> "FindForRepo", store |-> store, url |-> url, other |-> other] :
      store \in Stores, url \in LookupURLs, other \in LookupURLs }

\* Credential maps and environments: values that name a variable, that are
\* a lone "$", that do not start with "$", and variables whose value starts
\* with "$".
CredValues ==
  { <<"$", "A">>, <<"$", "B">>, <<"$">>, <<"plain">>, << >>, <<"$", "$", "A">> }

CredMaps ==
  [{"password"} -> CredValues] \cup [{"username", "password"} -> CredValues]

Environments ==
  UNION { [names -> { <<"x">>, <<"$", "B">>, <<"$">> }] :
            names \in SUBSET { <<"A">>, <<"B">> } }

EnvCalls ==
  { [fn |-> "expandEnvVars", creds |-> creds, env |-> env] :
      creds \in CredMaps, env \in Environments }

\* URLs: with an authority, without one, opaque and relative, with zero to
\* MaxSlashes trailing slashes.  A string is written with its longest
\* tokens, so no path starts with two slashes.
RECURSIVE Slashes(_)
Slashes(n) == IF n = 0 THEN << >> ELSE <<"/">> \o Slashes(n - 1)

URLHeads ==
  { << >>,
    <<"http", "://", "localhost">>,
    <<"oci", "://", "registry.local">>,
    <<"ssh", "://", "git", "@", "localhost">>,
    <<"file", "://", "..">>,
    <<"file", "://">>,
    <<"file", ":">>,
    <<"//", "localhost">>,
    <<"..">>,
    <<"alias", ":", "stable">>,
    <<"oci", ":", "stable">> }

URLPaths == { << >>, <<"/", "charts">>, <<"/", "charts", "/", "sub">> }

URLStrings ==
  { head \o path \o Slashes(n) :
      head \in URLHeads, path \in URLPaths, n \in 0..MaxSlashes }

URLCalls ==
  { [fn |-> "normalizeURL", url |-> url] :
      url \in { s \in URLStrings :
                  \A i \in 1..Len(s) - 1 :
                    s[i] = "/" /\ s[i + 1] = "/" => i > 1 /\ s[i - 1] # ":" } }

\* The tuples of two chart loads of one loader; a URL and a chart name can
\* hold a "#".
KeyURLs == { HelmURLSlash, HelmURLSlash \o <<"#", "a">> }

GitKeyURLs == { GitURL, GitURL \o <<"#", "a">> }

KeyCharts == { << >>, <<"a">>, <<"b">>, <<"a", "#", "b">> }

GitTuples ==
  { [url |-> url, chart |-> chart, ref |-> ref] :
      url \in GitKeyURLs, chart \in KeyCharts,
      ref \in { MasterRef, GitRef("", "master", "", "", ""),
                GitRef("", "", "", "", "master") } }

HelmTuples ==
  { [url |-> url, chart |-> chart, version |-> version] :
      url \in KeyURLs, chart \in KeyCharts, version \in 1..2 }

KeyCalls ==
  { [fn |-> "chartKey", loader |-> "git", a |-> a, b |-> b] :
      a \in GitTuples, b \in GitTuples }
  \cup { [fn |-> "chartKey", loader |-> "helm", a |-> a, b |-> b] :
           a \in HelmTuples, b \in HelmTuples }

InitUnit ==
  /\ call \in FindCalls \cup EnvCalls \cup URLCalls \cup KeyCalls
  /\ ret = << >>
  /\ nodes = << >>
  /\ credentials = << >>
  /\ chartCache = NilCache
  /\ heap = << >>
  /\ pairs = << >>
  /\ next = 1
  /\ result = << >>
  /\ output = << >>
  /\ log = << >>
  /\ err = Nil
  /\ pc = "call"
  /\ kubeVersion = NoKubeVersion
  /\ apiVersions = << >>

\* An application returns.
Returns(value) ==
  /\ ret' = Append(ret, value)
  /\ UNCHANGED <<nodes, credentials, chartCache, heap, pairs, next, result,
                 output, log, err, pc, call, kubeVersion, apiVersions>>

\* FindForRepo for the URL, then for the other URL, each with the order in
\* which the range visits the store.
FindForRepoCall ==
  /\ call.fn = "FindForRepo"
  /\ Len(ret) < 2
  /\ \E scan \in Orderings(DOMAIN call.store) :
       Returns(FindForRepo(call.store,
                           urlParse(IF ret = << >> THEN call.url ELSE call.other),
                           scan))

\* expandEnvVars on the map, and again on the map it has left.
ExpandEnvVarsCall ==
  /\ call.fn = "expandEnvVars"
  /\ Len(ret) < 2
  /\ Returns(expandEnvVars(IF ret = << >> THEN call.creds ELSE Last(ret),
                           call.env))

\* normalizeURL of the URL, and again of what it has returned.
NormalizeURLCall ==
  /\ call.fn = "normalizeURL"
  /\ Len(ret) < 2
  /\ Returns(normalizeURL(IF ret = << >> THEN call.url ELSE Last(ret)))

\* The chartKey of a tuple as its loader builds it.
ChartKeyOf(loader, tuple) ==
  IF loader = "git" THEN GitChartKey(tuple.url, tuple.chart, tuple.ref)
  ELSE HelmChartKey(tuple.url, tuple.chart, tuple.version)

\* The chartKey of the first load, then of the second.
ChartKeyCall ==
  /\ call.fn = "chartKey"
  /\ Len(ret) < 2
  /\ Returns(ChartKeyOf(call.loader, IF ret = << >> THEN call.a ELSE call.b))

NextUnit ==
  FindForRepoCall \/ ExpandEnvVarsCall \/ NormalizeURLCall \/ ChartKeyCall

SpecUnit == InitUnit /\ [][NextUnit]_vars

(***************************************************************************)
(* Properties of a run.                                                    *)
(***************************************************************************)
Terminal == {"done", "failed", "panicked", "hung"}

IsGenerated(doc) == "origin" \in DOMAIN doc

\* The generated documents of a document sequence.
GeneratedOf(docs) == SelectSeq(docs, IsGenerated)

\* The index, among the pairs, of the release at nodes[i].
PairIndex(i) == Cardinality({ j \in 1..i : IsHelmRelease(nodes[j]) })

\* (kind, apiVersion, namespace, name) by the byte order of the strings.
TupleOf(doc) ==
  <<Rank(doc.kind), Rank(doc.apiVersion), Rank(doc.namespace), Rank(doc.name)>>

RECURSIVE LexLess(_, _)
LexLess(s, t) ==
  IF s = << >> THEN FALSE
  ELSE s[1] < t[1] \/ (s[1] = t[1] /\ LexLess(Tail(s), Tail(t)))

\* The release has a sourceRef with a kind and a name, and no input
\* document matches it.
HasNoRepository(release) ==
  /\ release.sourceRef.kind # NoField
  /\ release.sourceRef.name # NoField
  /\ \A i \in DOMAIN nodes :
       ~ ( /\ nodes[i].kind = release.sourceRef.kind
           /\ nodes[i].name = release.sourceRef.name
           /\ nodes[i].namespace =
                (IF release.sourceRef.namespace # NoField
                 THEN release.sourceRef.namespace ELSE release.namespace)
           /\ (release.sourceRef.apiVersion # NoField
                 => nodes[i].apiVersion = release.sourceRef.apiVersion) )

Unresolved == { i \in DOMAIN nodes : IsHelmRelease(nodes[i]) /\ HasNoRepository(nodes[i]) }

\* C1: the output of a successful run is the input documents, unmodified
\* and in their order, followed by generated documents only.
C1_InputThenGenerated ==
  pc = "done" =>
    /\ Len(output) >= Len(nodes)
    /\ SubSeq(output, 1, Len(nodes)) = nodes
    /\ \A i \in (Len(nodes) + 1)..Len(output) : IsGenerated(output[i])

\* A successful run with two different input documents and generated ones.
C1_Witness ==
  /\ pc = "done"
  /\ Len(nodes) >= 2
  /\ nodes[1] # nodes[2]
  /\ Len(output) > Len(nodes)

\* C2: in the output of a successful run the generated documents are in
\* non-decreasing order of (kind, apiVersion, namespace, name), and two of
\* them with equal tuples are in the order of their emission: the order of
\* their releases, then the order of appending within the release.
C2_StablySorted ==
  pc = "done" =>
    LET generated == GeneratedOf(output) IN
    \A i, j \in DOMAIN generated :
      i < j =>
        /\ ~LexLess(TupleOf(generated[j]), TupleOf(generated[i]))
        /\ TupleOf(generated[i]) = TupleOf(generated[j]) =>
             /\ generated[i].emitted < generated[j].emitted
             /\ generated[i].origin.release <= generated[j].origin.release

\* A successful run in which two releases generate documents with equal
\* tuples and the sort moves a document in front of one emitted earlier.
C2_Witness ==
  /\ pc = "done"
  /\ LET generated == GeneratedOf(output) IN
     /\ \E i, j \in DOMAIN generated :
          /\ i < j
          /\ TupleOf(generated[i]) = TupleOf(generated[j])
          /\ generated[i].origin.release < generated[j].origin.release
     /\ \E i, j \in DOMAIN generated :
          i < j /\ generated[i].emitted > generated[j].emitted

\* C3 as stated: a release without a matching repository document makes
\* the run fail with an error that names that release, and no document is
\* generated for it.
C3_ErrorNamesRelease ==
  \A i \in Unresolved :
    /\ pc \notin {"write", "done"}
    /\ \A d \in DOMAIN GeneratedOf(result) :
         GeneratedOf(result)[d].origin.release # PairIndex(i)
    /\ pc \in Terminal => pc = "failed" /\ err.release = ReleaseId(nodes[i])

\* C3: a release without a matching repository document keeps the run from
\* succeeding and from writing anything, no document is generated for it,
\* and when the pairing pass raises no error and every release before it
\* is expanded, the run fails with the missing-repository error that names
\* that release.
C3_UnresolvedFailsRun ==
  \A i \in Unresolved :
    /\ pc \notin {"write", "done"}
    /\ output = << >>
    /\ next <= PairIndex(i)
    /\ \A d \in DOMAIN GeneratedOf(result) :
         GeneratedOf(result)[d].origin.release # PairIndex(i)
    /\ (pc \in Terminal /\ Len(pairs) >= PairIndex(i) /\ next = PairIndex(i)
          /\ (err = Nil \/ err.stage = "unable to expand Helm release")) =>
         /\ pc = "failed"
         /\ err.release = ReleaseId(nodes[i])
         /\ err.cause = "missing chart repository"

\* The run has failed on an unresolved release that comes after a release
\* that was expanded.
C3_Witness ==
  \E i \in Unresolved :
    /\ PairIndex(i) > 1
    /\ next = PairIndex(i)
    /\ pc = "failed"
    /\ err.release = ReleaseId(nodes[i])
    /\ result # << >>

ExpandedPairs == 1..(next - 1)

\* The events of the log with the operation, and those of one release.
Calls(op) == { e \in DOMAIN log : log[e].op = op }

CallsOf(op, k) == { e \in Calls(op) : log[e].release = k }

\* The fingerprint of the chart of a pair with a Git repository.
GitFingerprint(pair) == <<pair.repo.url, pair.release.chart, pair.repo.ref>>

\* C5: with the chart cache enabled, no two calls of Clone in a run are made
\* for releases with the same Git fingerprint, and a release expanded after
\* one with the same fingerprint makes no call of Clone.
C5_CloneOncePerFingerprint ==
  chartCache # NilCache =>
    /\ \A e1, e2 \in Calls("Clone") :
         GitFingerprint(pairs[log[e1].release]) = GitFingerprint(pairs[log[e2].release])
           => e1 = e2
    /\ \A j, k \in ExpandedPairs :
         (j < k /\ GitFingerprint(pairs[j]) = GitFingerprint(pairs[k]))
           => CallsOf("Clone", k) = {}

\* Two releases with the same fingerprint through GitRepository documents
\* of different names are expanded with the cache, with one call of Clone.
C5_Witness ==
  /\ chartCache # NilCache
  /\ next > 2
  /\ GitFingerprint(pairs[1]) = GitFingerprint(pairs[2])
  /\ pairs[1].repo.name # pairs[2].repo.name
  /\ Cardinality(Calls("Clone")) = 1

\* The chart version a release of a Helm repository resolves to.
ResolvedVersion(pair) ==
  Max(HelmIndex(normalizeURL(pair.repo.url))[pair.release.chart]
        \cap pair.release.version.accept)

\* The class of a pair: the normalized URL, the chart name and the version.
HelmClass(pair) ==
  <<normalizeURL(pair.repo.url), pair.release.chart, ResolvedVersion(pair)>>

\* The downloads of the archive of a class.
Downloads(class) ==
  { e \in Calls("Get") : log[e].url = class[1] /\ log[e].detail = <<class[2], class[3]>> }

\* C6: with the chart cache enabled, for the expanded releases of one class
\* (same normalized URL, same chart name and resolved version) the archive
\* is downloaded exactly once and the index once per release, the archive
\* after the first of these index downloads and before every other.
C6_OneArchiveDownload ==
  chartCache # NilCache =>
    \A k \in ExpandedPairs :
      LET class == { j \in ExpandedPairs : HelmClass(pairs[j]) = HelmClass(pairs[k]) }
          indexes == UNION { CallsOf("DownloadIndexFile", j) : j \in class }
          first == CHOOSE e \in indexes : \A f \in indexes : e <= f
      IN /\ Cardinality(Downloads(HelmClass(pairs[k]))) = 1
         /\ \A j \in class : Cardinality(CallsOf("DownloadIndexFile", j)) = 1
         /\ Cardinality(indexes) = Cardinality(class)
         /\ \A d \in Downloads(HelmClass(pairs[k])) :
              /\ first < d
              /\ \A f \in indexes \ {first} : d < f

\* Two releases of one class, through repository URLs that differ before
\* normalization, are expanded with the cache.
C6_Witness ==
  /\ chartCache # NilCache
  /\ next > 2
  /\ HelmClass(pairs[1]) = HelmClass(pairs[2])
  /\ pairs[1].repo.url # pairs[2].repo.url
  /\ pairs[1].release.version # pairs[2].release.version
  /\ Cardinality(Calls("DownloadIndexFile")) = 2
  /\ Cardinality(Calls("Get")) = 1

\* The charts of the Git repository with relative dependencies, each with
\* the chart directories its load reads, in the order of the reads: the
\* chart's own, then those of its dependencies at every depth, each at the
\* join of its parent's chart path with its relative path.
RelativeLoads ==
  ( Path("charts", "test-chart") :>
      << Path("charts", "test-chart"), Path("charts", "dependency-chart"),
         Path("charts", "leaf-chart") >> )
  @@ ( Path("charts", "dependency-chart") :>
      << Path("charts", "dependency-chart"), Path("charts", "leaf-chart") >> )

HasRelativeDependencies(pair) ==
  /\ pair.repo # Nil
  /\ pair.repo.kind = "GitRepository"
  /\ pair.release.chart \in DOMAIN RelativeLoads

\* The chart directories the expansion of the k-th pair has read, in order.
LoadsOf(k) ==
  LET events == SelectSeq(log, LAMBDA e : e.op = "LoadDir" /\ e.release = k)
  IN [i \in 1..Len(events) |-> events[i].detail]

\* The template keys of the documents generated for the k-th pair.
KeysOf(k) ==
  { result[d].origin.key :
      d \in { i \in DOMAIN result : IsGenerated(result[i]) /\ result[i].origin.release = k } }

\* C7 as stated: Clone is called exactly once for a release whose chart in
\* a Git repository has relative-path dependencies.
C7_CloneExactlyOnce ==
  \A k \in ExpandedPairs :
    HasRelativeDependencies(pairs[k]) => Cardinality(CallsOf("Clone", k)) = 1

\* C7: for an expanded release whose chart in a Git repository has
\* relative-path dependencies, Clone is called at most once, and exactly
\* once when the cache is disabled or the release is the first; every
\* chart directory read for it is read from the directory of that one
\* clone; without a cache hit the reads are the chart and its dependencies
\* at every depth, at the joined paths; and the documents of the
\* dependencies the release leaves enabled are generated under the keys of
\* subcharts of their parents.
C7_RelativeDependenciesShareClone ==
  \A k \in ExpandedPairs :
    HasRelativeDependencies(pairs[k]) =>
      /\ Cardinality(CallsOf("Clone", k)) <= 1
      /\ (chartCache = NilCache \/ k = 1) => Cardinality(CallsOf("Clone", k)) = 1
      /\ CallsOf("Clone", k) = {} => CallsOf("LoadDir", k) = {}
      /\ \A e \in CallsOf("LoadDir", k) :
           \E c \in CallsOf("NewClient", k) : c < e /\ log[c].url = log[e].url
      /\ (chartCache = NilCache \/ k = 1) =>
           LoadsOf(k) = RelativeLoads[pairs[k].release.chart]
      /\ (/\ chartCache = NilCache \/ k = 1
          /\ pairs[k].release.chart = Path("charts", "test-chart")
          /\ pairs[k].release.values = NoValues) =>
           /\ <<"test-chart", "/", "charts", "/", "dependency-chart", "/",
                "templates", "/", "configmap.yaml">> \in KeysOf(k)
           /\ <<"test-chart", "/", "charts", "/", "dependency-chart", "/",
                "charts", "/", "leaf-chart", "/", "templates", "/",
                "serviceaccount.yaml">> \in KeysOf(k)

\* With the cache, a release with dependencies at two depths is expanded
\* with one call of Clone and three chart directories read, and a second
\* release gets the same chart from the cache without a call of Clone.
C7_Witness ==
  /\ chartCache # NilCache
  /\ next > 2
  /\ pc = "filter2"
  /\ HasRelativeDependencies(pairs[1])
  /\ HasRelativeDependencies(pairs[2])
  /\ Cardinality(CallsOf("Clone", 1)) = 1
  /\ Len(LoadsOf(1)) = 3
  /\ CallsOf("Clone", 2) = {}
  /\ <<"test-chart", "/", "charts", "/", "dependency-chart", "/", "charts", "/",
       "leaf-chart", "/", "templates", "/", "serviceaccount.yaml">> \in KeysOf(1)

\* What a generated document holds when it is written.
Content(doc) ==
  <<doc.kind, doc.apiVersion, doc.namespace, doc.name, doc.HeadComment,
    doc.origin.pos>>

Contents(docs) == [i \in DOMAIN docs |-> Content(docs[i])]

\* The generated documents of the run on the same input that visits the
\* entries of every map in one chosen order, from the k-th pair on.
RECURSIVE ReferenceFrom(_, _, _, _, _)
ReferenceFrom(k, cache, objects, calls, acc) ==
  IF k > Len(pairs) THEN SortStableFunc(acc)
  ELSE LET expanded ==
             Expanded([heap |-> objects, cache |-> cache, log |-> calls,
                       dirs |-> << >>, cacheRoot |-> 0, release |-> k,
                       credentials |-> credentials,
                       scan |-> CHOOSE scan \in Orderings(DOMAIN credentials) : TRUE,
                       kubeVersion |-> kubeVersion, apiVersions |-> apiVersions],
                      pairs[k].release, pairs[k].repo)
       IN IF expanded.err # "" THEN << >>
          ELSE ReferenceFrom(
                 k + 1, expanded.st.cache, expanded.st.heap, expanded.st.log,
                 acc \o Emitted(
                          Documents(CHOOSE order \in Orderings(expanded.manifests) : TRUE,
                                    k, pairs[k].release),
                          Len(acc)))

\* C8 as stated: a successful run writes the generated documents in the
\* order in which every other run on the same input writes them.
C8_SameOrderAcrossRuns ==
  pc = "done" =>
    Contents(GeneratedOf(output))
      = Contents(ReferenceFrom(1, IF chartCache = NilCache THEN NilCache ELSE << >>,
                               << >>, << >>, << >>))

\* C9 as stated: the documents of one template file of a release are in
\* the output in the order of the file.
C9_FileOrderKept ==
  pc = "done" =>
    LET generated == GeneratedOf(output) IN
    \A i, j \in DOMAIN generated :
      ( /\ i < j
        /\ generated[i].origin.release = generated[j].origin.release
        /\ generated[i].origin.key = generated[j].origin.key )
      => generated[i].origin.pos < generated[j].origin.pos

\* C9: two documents of one template file of a release with the same
\* (kind, apiVersion, namespace, name) are in the output in the order of
\* the file.
C9_EqualTuplesKeepFileOrder ==
  pc = "done" =>
    LET generated == GeneratedOf(output) IN
    \A i, j \in DOMAIN generated :
      ( /\ i < j
        /\ generated[i].origin.release = generated[j].origin.release
        /\ generated[i].origin.key = generated[j].origin.key
        /\ TupleOf(generated[i]) = TupleOf(generated[j]) )
      => generated[i].origin.pos < generated[j].origin.pos

\* A successful run whose output holds two documents of one file with equal
\* tuples, with a document of the same file that stands between them in the
\* file and after them in the output.
C9_Witness ==
  /\ pc = "done"
  /\ LET generated == GeneratedOf(output) IN
     \E i, j, m \in DOMAIN generated :
       /\ i < j /\ j < m
       /\ generated[i].origin.release = generated[j].origin.release
       /\ generated[i].origin.key = generated[j].origin.key
       /\ generated[m].origin.release = generated[i].origin.release
       /\ generated[m].origin.key = generated[i].origin.key
       /\ TupleOf(generated[i]) = TupleOf(generated[j])
       /\ generated[i].origin.pos < generated[m].origin.pos
       /\ generated[m].origin.pos < generated[j].origin.pos

\* C10 as stated: every generated document of the output has a non-empty
\* metadata.namespace.
C10_NamespaceNonEmpty ==
  pc = "done" =>
    \A i \in DOMAIN output :
      IsGenerated(output[i]) => output[i].namespace # ""

\* C10: a generated document keeps the namespace it is rendered with; one
\* rendered without a namespace has the metadata namespace of its release
\* when its kind is namespaced, and none when its kind is cluster-scoped.
\* So a generated document of a namespaced kind has a non-empty namespace
\* whenever its release has one.
C10_NamespaceFromRelease ==
  \A i \in DOMAIN result :
    IsGenerated(result[i]) =>
      LET doc == result[i]
          release == pairs[doc.origin.release].release
      IN /\ doc.origin.rendered # "" => doc.namespace = doc.origin.rendered
         /\ (doc.origin.rendered = "" /\ doc.kind \notin ClusterScoped)
              => doc.namespace = release.namespace
         /\ (doc.origin.rendered = "" /\ doc.kind \in ClusterScoped)
              => doc.namespace = ""
         /\ (doc.kind \notin ClusterScoped /\ release.namespace # "")
              => doc.namespace # ""

\* A successful run has written a document that was rendered without a
\* namespace and has the namespace of its release.
C10_Witness ==
  /\ pc = "done"
  /\ \E i \in DOMAIN output :
       /\ IsGenerated(output[i])
       /\ output[i].origin.rendered = ""
       /\ output[i].namespace # ""
       /\ output[i].namespace = pairs[output[i].origin.release].release.namespace

\* C11 as stated: every generated document of the output carries the head
\* comment "Source: <key>" of the template key it is rendered from, each
\* document of a file with several, and none comes from a file whose base
\* name is NOTES.txt.
C11_SourceHeadComment ==
  pc = "done" =>
    \A i \in DOMAIN output :
      IsGenerated(output[i]) =>
        /\ output[i].HeadComment = <<"Source: ">> \o output[i].origin.key
        /\ Base(output[i].origin.key) # <<"NOTES.txt">>

\* The identity the claim gives for a release.
IdentityOf(release) ==
  LET namespace == IF release.targetNamespace # "" THEN release.targetNamespace
                   ELSE release.namespace
  IN [Namespace |-> namespace,
      Name |-> IF release.releaseName # "" THEN release.releaseName
               ELSE namespace \o "-" \o release.name]

\* C12: every release whose chart is rendered is rendered once, with the
\* namespace spec.targetNamespace, or the metadata namespace when that is
\* empty, with the name spec.releaseName, or "<that namespace>-<metadata
\* name>" when that is empty, and with revision 1, IsInstall true and
\* IsUpgrade false.
C12_ReleaseIdentity ==
  /\ \A e \in Calls("ToRenderValues") :
       LET release == pairs[log[e].release].release
           options == log[e].detail
       IN /\ options.Namespace = IdentityOf(release).Namespace
          /\ options.Name = IdentityOf(release).Name
          /\ options.Revision = 1
          /\ options.IsInstall
          /\ ~options.IsUpgrade
  /\ \A k \in ExpandedPairs : Cardinality(CallsOf("ToRenderValues", k)) = 1

\* Two releases are rendered: one with a target namespace and no release
\* name, named after the target namespace, and one with a release name and
\* no target namespace, in its metadata namespace.
C12_Witness ==
  /\ \E e \in Calls("ToRenderValues") :
       /\ pairs[log[e].release].release.targetNamespace # ""
       /\ pairs[log[e].release].release.releaseName = ""
       /\ log[e].detail.Name = "testns-other-test"
       /\ log[e].detail.Namespace = "testns-other"
  /\ \E e \in Calls("ToRenderValues") :
       /\ pairs[log[e].release].release.releaseName # ""
       /\ pairs[log[e].release].release.targetNamespace = ""
       /\ log[e].detail.Name = "custom"
       /\ log[e].detail.Namespace = "testns"

\* C13 as stated: the checkout strategy of every call of Clone is branch
\* "master" when the repository has no reference or one with five empty
\* fields, and else the reference itself.
C13_CheckoutStrategyFromReference ==
  \A e \in Calls("Clone") :
    LET ref == pairs[log[e].release].repo.ref IN
    log[e].detail = IF ref = Nil \/ ref = GitRef("", "", "", "", "")
                    THEN MasterRef ELSE ref

\* The entries of the store that have the scheme, the host and the user
\* name of a URL.
MatchingEntries(repoURL) ==
  { k \in DOMAIN credentials :
      /\ urlParse(k).Scheme = urlParse(repoURL).Scheme
      /\ urlParse(k).Host = urlParse(repoURL).Host
      /\ Username(urlParse(k)) = Username(urlParse(repoURL)) }

\* The credentials a lookup for the URL can find: the entry of the URL
\* itself, else any entry with its scheme, host and user name, else nil.
FoundFor(repoURL) ==
  IF repoURL \in DOMAIN credentials THEN {credentials[repoURL]}
  ELSE IF MatchingEntries(repoURL) = {} THEN {Nil}
  ELSE { credentials[k] : k \in MatchingEntries(repoURL) }

\* C14: Clone is called with "https://<hostname><path>", without userinfo,
\* when the scheme of the repository's URL is ssh and the credentials found
\* for it have a password and no identity, and with the repository's URL
\* unchanged in every other case.
C14_CloneURLRewrittenForPassword ==
  \A e \in Calls("Clone") :
    LET repo == pairs[log[e].release].repo
        u == urlParse(repo.url)
    IN \E found \in FoundFor(repo.url) :
         IF /\ u.Scheme = "ssh"
            /\ found # Nil
            /\ found.password # ""
            /\ found.identity = ""
         THEN log[e].url = <<"https", "://", Hostname(u)>> \o u.Path
         ELSE log[e].url = repo.url

\* An ssh URL with a user and a port is cloned through the HTTPS URL of its
\* host name, with a password found for it by scheme, host and user name.
C14_Witness ==
  \E e \in Calls("Clone") :
    /\ pairs[log[e].release].repo.url
         = <<"ssh", "://", "git", "@", "localhost:22", "/", "dummy.git">>
    /\ pairs[log[e].release].repo.url \notin DOMAIN credentials
    /\ log[e].url = <<"https", "://", "localhost", "/", "dummy.git">>
    /\ pc = "done"

\* C15: when git.NewAuthOptions returns an error for a repository, neither
\* the client factory nor Clone is called for it, and the run fails, without
\* output, with an error for that release that wraps the diagnostic; for an
\* ssh URL and an empty store the diagnostic is that an identity is
\* required.
C15_AuthFailureStopsClone ==
  \A e \in Calls("NewAuthOptions") :
    /\ log[e].detail # "" =>
         /\ CallsOf("NewClient", log[e].release) = {}
         /\ CallsOf("Clone", log[e].release) = {}
         /\ pc = "failed"
         /\ output = << >>
         /\ err.release = ReleaseId(pairs[log[e].release].release)
         /\ err.stage = "unable to expand Helm release"
         /\ err.cause = Wrapped("unable to initialize Git auth options",
                                log[e].detail)
    /\ ( /\ credentials = << >>
         /\ urlParse(log[e].url).Scheme = "ssh"
         /\ urlParse(log[e].url).Host # "" ) =>
         log[e].detail = "invalid 'ssh' auth option: 'identity' is required"

\* A run with an ssh URL and an empty store has failed on the missing
\* identity.
C15_Witness ==
  /\ pc = "failed"
  /\ credentials = << >>
  /\ Calls("NewAuthOptions") # {}
  /\ err.cause = "unable to initialize Git auth options: invalid 'ssh' auth option: 'identity' is required"


\* The URL of the k-th lookup of a FindForRepo call.
LookupURL(k) == IF k = 1 THEN call.url ELSE call.other

\* The keys of the store that parse and have the scheme, the host and the
\* user name of a URL.
TripleKeys(store, repoURL) ==
  { k \in DOMAIN store :
      /\ ~InvalidURL(k)
      /\ urlParse(k).Scheme = urlParse(repoURL).Scheme
      /\ urlParse(k).Host = urlParse(repoURL).Host
      /\ Username(urlParse(k)) = Username(urlParse(repoURL)) }

\* A lookup by exact URL and a lookup by the triple: the URL is a key of
\* the store, the other URL is not and has the triple of the first.
ExactAndTriple ==
  /\ call.fn = "FindForRepo"
  /\ Len(ret) = 2
  /\ urlString(urlParse(call.url)) \in DOMAIN call.store
  /\ urlString(urlParse(call.other)) \notin DOMAIN call.store
  /\ call.url \in TripleKeys(call.store, call.other)

\* C16 as stated: when an entry matches the URL exactly and an entry
\* matches by (scheme, host, username), the lookup by exact URL and the
\* lookup by the triple return the same credentials; an exact match is
\* always preferred; when nothing matches the result is nil without error.
C16_ExactAndTripleAgree ==
  call.fn = "FindForRepo" =>
    /\ ExactAndTriple => ret[2] = ret[1]
    /\ \A k \in 1..Len(ret) :
         /\ urlString(urlParse(LookupURL(k))) \in DOMAIN call.store =>
              ret[k] = Found(call.store[urlString(urlParse(LookupURL(k)))], "")
         /\ /\ urlString(urlParse(LookupURL(k))) \notin DOMAIN call.store
            /\ TripleKeys(call.store, LookupURL(k)) = {}
            => ret[k] = Found(Nil, "")

\* C16: an entry that matches the URL exactly is always the one returned;
\* without one the lookup returns the credentials of an entry with the
\* scheme, host and user name of the URL, or the error of a stored URL that
\* does not parse; the lookup by the triple returns what the lookup by the
\* exact URL returns when that entry is the only one of the triple and no
\* error is returned; when nothing matches and every stored URL parses the
\* result is nil without error.
C16_ExactPreferredElseTriple ==
  call.fn = "FindForRepo" =>
    /\ /\ ExactAndTriple
       /\ Cardinality(TripleKeys(call.store, call.other)) = 1
       /\ ret[2].err = ""
       => ret[2] = ret[1]
    /\ \A k \in 1..Len(ret) :
         IF urlString(urlParse(LookupURL(k))) \in DOMAIN call.store
         THEN ret[k] = Found(call.store[urlString(urlParse(LookupURL(k)))], "")
         ELSE /\ ret[k].err = "" =>
                   IF TripleKeys(call.store, LookupURL(k)) = {}
                   THEN ret[k].creds = Nil
                   ELSE \E key \in TripleKeys(call.store, LookupURL(k)) :
                          ret[k].creds = call.store[key]
              /\ ret[k].err # "" =>
                   /\ ret[k].creds = Nil
                   /\ \E key \in DOMAIN call.store : InvalidURL(key)
              /\ (\A key \in DOMAIN call.store : ~InvalidURL(key)) =>
                   ret[k].err = ""

\* C16 witness: the store has the URL itself and another entry of its
\* triple; the lookup by the exact URL returned the entry of the URL and the
\* lookup by the triple the other entry.
C16_Witness ==
  /\ ExactAndTriple
  /\ Cardinality(TripleKeys(call.store, call.other)) = 2
  /\ ret[1] = Found(call.store[call.url], "")
  /\ ret[2].err = ""
  /\ ret[2].creds # Nil
  /\ ret[2] # ret[1]

\* A value that is "$" followed by at least one character.
NamesVariable(value) == Len(value) >= 2 /\ value[1] = "$"

\* What one substitution makes of a value.
Substituted(value, env) ==
  IF NamesVariable(value)
  THEN IF Tail(value) \in DOMAIN env THEN env[Tail(value)] ELSE << >>
  ELSE value

\* The first application has substituted every value of the map.
FirstExpansion ==
  Len(ret) >= 1 =>
    /\ DOMAIN ret[1] = DOMAIN call.creds
    /\ \A key \in DOMAIN call.creds :
         ret[1][key] = Substituted(call.creds[key], call.env)

\* C17 as stated: a second application of expandEnvVars leaves every value
\* as the first application left it, for every credential map and every
\* environment; a value "$NAME" becomes the value of NAME, empty if unset,
\* a lone "$" and a value that does not start with "$" are unchanged.
C17_ExpansionIdempotent ==
  call.fn = "expandEnvVars" =>
    /\ FirstExpansion
    /\ Len(ret) = 2 => ret[2] = ret[1]

\* C17: a second application of expandEnvVars leaves a value as the first
\* application left it when the first application did not leave "$" followed
\* by at least one character, that is when the value of the variable does
\* not itself name a variable; a value "$NAME" becomes the value of NAME,
\* empty if unset, a lone "$" and a value that does not start with "$" are
\* unchanged.
C17_IdempotentOnPlainValues ==
  call.fn = "expandEnvVars" =>
    /\ FirstExpansion
    /\ Len(ret) = 2 =>
         /\ DOMAIN ret[2] = DOMAIN ret[1]
         /\ \A key \in DOMAIN ret[1] :
              ~NamesVariable(ret[1][key]) => ret[2][key] = ret[1][key]

\* C17 witness: a map with a lone "$" and with "$A", A set to "x", has been
\* expanded twice, and both applications left "$" and "x".
C17_Witness ==
  /\ call.fn = "expandEnvVars"
  /\ call.creds = [username |-> <<"$">>, password |-> <<"$", "A">>]
  /\ <<"A">> \in DOMAIN call.env
  /\ Len(ret) = 2
  /\ ret[1] = [username |-> <<"$">>, password |-> <<"x">>]
  /\ ret[2] = ret[1]

\* A token string that ends in exactly one "/".
EndsInOneSlash(s) ==
  /\ s # << >>
  /\ Last(s) = "/"
  /\ (Len(s) = 1 \/ s[Len(s) - 1] # "/")

\* C18 as stated: normalizeURL(normalizeURL(u)) = normalizeURL(u) for every
\* parseable URL u; a non-OCI result has a path ending in exactly one "/",
\* an OCI result has no trailing "/", and the empty string maps to the empty
\* string.
C18_NormalizeURLIdempotent ==
  call.fn = "normalizeURL" =>
    /\ Len(ret) = 2 => ret[2] = ret[1]
    /\ Len(ret) >= 1 =>
         IF call.url = << >> THEN ret[1] = << >>
         ELSE IF urlParse(ret[1]).Scheme = OCIScheme
         THEN Last(ret[1]) # "/"
         ELSE EndsInOneSlash(urlParse(ret[1]).Path)

\* C18: normalizeURL(normalizeURL(u)) = normalizeURL(u) for every parseable
\* URL u; when u is not opaque (a scheme and a colon followed by anything
\* but "/") a non-OCI result has a path ending in exactly one "/" and an OCI
\* result has no trailing "/"; an opaque URL is returned as it is, and the
\* empty string maps to the empty string.
C18_IdempotentAndOneSlashUnlessOpaque ==
  call.fn = "normalizeURL" =>
    /\ Len(ret) = 2 => ret[2] = ret[1]
    /\ Len(ret) >= 1 =>
         IF call.url = << >> THEN ret[1] = << >>
         ELSE IF urlParse(call.url).Opaque # << >> THEN ret[1] = call.url
         ELSE IF urlParse(ret[1]).Scheme = OCIScheme
         THEN Last(ret[1]) # "/"
         ELSE EndsInOneSlash(urlParse(ret[1]).Path)

\* C18 witness: "http://localhost/charts//" has been normalized to
\* "http://localhost/charts/", and that to itself.
C18_Witness ==
  /\ call.fn = "normalizeURL"
  /\ call.url = <<"http", "://", "localhost", "/", "charts", "/", "/">>
  /\ Len(ret) = 2
  /\ ret[1] = <<"http", "://", "localhost", "/", "charts", "/">>
  /\ ret[2] = ret[1]

\* C19: two chart loads whose tuples differ in any component (HTTP/OCI:
\* normalized URL, chart name, resolved version; Git: URL, chart path,
\* branch, tag, semver, ref name, commit) never get the same cache key,
\* also when components are empty or contain "#".
C19_ChartKeysInjective ==
  (call.fn = "chartKey" /\ Len(ret) = 2 /\ call.a # call.b) =>
    ret[1] # ret[2]

\* The fingerprint of the chart of a pair with a Git repository, the URL in
\* normalized form.
NormalizedFingerprint(pair) ==
  <<normalizeURL(pair.repo.url), pair.release.chart, pair.repo.ref>>

\* C20: repository URLs are compared in normalized form by the Git loader
\* too: with the chart cache enabled no two calls of Clone are made for
\* releases whose fingerprints are the same once the URLs are normalized,
\* and two repositories with the same normalized URL are given the same
\* credentials, so that their clones are authorized for the same normalized
\* URL.
C20_URLsComparedNormalized ==
  /\ chartCache # NilCache =>
       \A e1, e2 \in Calls("Clone") :
         NormalizedFingerprint(pairs[log[e1].release])
           = NormalizedFingerprint(pairs[log[e2].release])
           => e1 = e2
  /\ \A e1, e2 \in Calls("NewAuthOptions") :
       normalizeURL(pairs[log[e1].release].repo.url)
         = normalizeURL(pairs[log[e2].release].repo.url)
         => normalizeURL(log[e1].url) = normalizeURL(log[e2].url)

\* C21: when API versions are supplied, the capabilities the templates are
\* rendered with hold every supplied version and every default well-known
\* version; a supplied kube version replaces the default one.
C21_SuppliedVersionsAddedToDefaults ==
  \A e \in Calls("Render") :
    /\ Range(apiVersions) \subseteq log[e].detail.APIVersions
    /\ DefaultVersionSet \subseteq log[e].detail.APIVersions
    /\ log[e].detail.KubeVersion
         = IF kubeVersion # NoKubeVersion THEN kubeVersion ELSE DefaultKubeVersion

\* The template keys under which a chart of the Git repository and the
\* subcharts the values leave enabled generate documents.
RECURSIVE EnabledKeys(_, _, _)
EnabledKeys(files, prefix, values) ==
  { prefix \o <<"/">> \o files.templates[t].file :
      t \in { i \in 1..Len(files.templates) :
                /\ files.templates[i].docs # << >>
                /\ Base(files.templates[i].file) # <<"NOTES.txt">> } }
  \cup UNION
    { EnabledKeys(GitTree(GitURL)[Path("charts", files.dependencies[d].Name)],
                  prefix \o <<"/", "charts", "/", files.dependencies[d].Name>>,
                  values) :
        d \in { i \in 1..Len(files.dependencies) :
                  \/ files.dependencies[i].Condition = ""
                  \/ ConditionHolds(values, files.defaults,
                                    files.dependencies[i].Condition) } }

\* C22: the documents generated for a release are those of the templates of
\* the parent chart and of every subchart whose condition holds under the
\* release's values, and none of a subchart whose condition is false.
C22_EnabledSubchartsOnly ==
  \A k \in ExpandedPairs :
    KeysOf(k) =
      EnabledKeys(GitTree(pairs[k].repo.url)[pairs[k].release.chart],
                  <<GitTree(pairs[k].repo.url)[pairs[k].release.chart].name>>,
                  pairs[k].release.values)

\* The run has ended: it has written its output, or returned an error, or
\* crashed.
RunEnded == pc \in {"done", "failed", "panicked"}

\* C23: a run that creates a temporary cache root creates exactly one,
\* however many releases it expands, and every root created is removed
\* when the run has ended, with or without error.
C23_OneTempRootPerRun ==
  /\ Cardinality(TempDirs(log)) <= 1
  /\ RunEnded =>
       \A e \in TempDirs(log) :
         \E r \in Calls("RemoveAll") : e < r /\ log[r].url = log[e].url

\* The expansion of a release has returned an error.
ExpansionFailed == err # Nil /\ err.stage = "unable to expand Helm release"

\* C24: when the expansion of the i-th release fails the run ends there:
\* the error names release i, no call is logged and no document generated
\* for a later release, no call made for release i is made twice, and
\* nothing is written to the output.
C24_FirstErrorEndsRun ==
  ExpansionFailed =>
    /\ pc = "failed"
    /\ next <= Len(pairs)
    /\ err.release = ReleaseId(pairs[next].release)
    /\ err.cause # ""
    /\ \A e \in DOMAIN log : log[e].release <= next
    /\ \A d \in DOMAIN result :
         IsGenerated(result[d]) /\ result[d].origin.release < next
    /\ \A e1, e2 \in DOMAIN log :
         (log[e1].release = next /\ log[e1] = log[e2]) => e1 = e2
    /\ output = << >>

\* C24 witness: the expansion of a release has failed after the creation of
\* its cache root, with a release that has a repository still to expand,
\* and the run has ended without a call for that release.
C24_Witness ==
  /\ ExpansionFailed
  /\ pc = "failed"
  /\ next < Len(pairs)
  /\ pairs[next + 1].repo # Nil
  /\ CallsOf("MkdirTemp", next) # {}
  /\ \A e \in DOMAIN log : log[e].release # next + 1

\* The HelmRelease documents of the input, in their order.
InputReleases == SelectSeq(nodes, IsHelmRelease)

\* The pairing pass has paired every release.
PairingDone ==
  pc # "filter1" /\ (err = Nil \/ err.stage = "unable to expand Helm release")

\* C25: once the pairing pass is done the releases of the pairs are the
\* HelmRelease documents of the input, whatever is rendered afterwards; a
\* chart is loaded only for these, once each at most; and a HelmRelease
\* document that a chart renders is written to the output with the other
\* generated documents.
C25_GeneratedReleasesNotExpanded ==
  /\ PairingDone =>
       /\ Len(pairs) = Len(InputReleases)
       /\ \A k \in DOMAIN pairs : pairs[k].release = InputReleases[k]
  /\ \A e \in DOMAIN log : log[e].release \in 1..Len(InputReleases)
  /\ \A k \in 1..Len(InputReleases) : Cardinality(CallsOf("MkdirTemp", k)) <= 1
  /\ pc = "done" =>
       \A d \in DOMAIN result :
         (IsGenerated(result[d]) /\ IsHelmRelease(result[d])) =>
           /\ output[d] = result[d]
           /\ d > Len(nodes)

\* C25 witness: a run has ended with a generated HelmRelease document in
\* its output and with one chart load, for the one release of the input.
C25_Witness ==
  /\ pc = "done"
  /\ Len(InputReleases) = 1
  /\ \E d \in DOMAIN output : IsGenerated(output[d]) /\ IsHelmRelease(output[d])
  /\ Cardinality(TempDirs(log)) = 1

\* The template keys of the documents the k-th pair generates in a run
\* without chart cache: the manifests of its expansion from a state without
\* cache and without chart objects.
UncachedKeys(k) ==
  LET scan == CHOOSE s \in Orderings(DOMAIN credentials) : TRUE
      alone == [LoadState(scan) EXCEPT !.cache = NilCache, !.heap = << >>,
                                       !.log = << >>, !.release = k]
      manifests == Expanded(alone, pairs[k].release, pairs[k].repo).manifests
  IN { m.key : m \in { n \in manifests :
                         n.text # << >> /\ Base(n.key) # <<"NOTES.txt">> } }

\* C26: with the chart cache enabled every release generates the documents
\* it generates in a run without the cache, also after a release with the
\* same chart fingerprint and other values.
C26_CacheTransparent ==
  \A k \in ExpandedPairs : KeysOf(k) = UncachedKeys(k)

\* The HelmRelease documents of the input whose sourceRef has no kind or no
\* name.
Unreferenced ==
  { i \in DOMAIN nodes :
      /\ IsHelmRelease(nodes[i])
      /\ (nodes[i].sourceRef.kind = NoField \/ nodes[i].sourceRef.name = NoField) }

\* C27: no call of a transport or of the file system is made before every
\* HelmRelease document is paired; a release without sourceRef.kind or
\* sourceRef.name, wherever it stands in the input, makes the run fail in
\* the pairing pass, with an error that names the first such release, and
\* without any call.
C27_PairingBeforeExpansion ==
  /\ pc = "filter1" => log = << >> /\ pairs = << >>
  /\ log # << >> =>
       /\ Len(pairs) = Len(SelectSeq(nodes, IsHelmRelease))
       /\ \A k \in DOMAIN pairs : pairs[k].release = SelectSeq(nodes, IsHelmRelease)[k]
  /\ Unreferenced # {} =>
       /\ log = << >>
       /\ pc \in {"filter1", "failed"}
       /\ pc = "failed" =>
            /\ err.stage = "unable to find repository for HelmRelease"
            /\ err.release
                 = ReleaseId(nodes[CHOOSE i \in Unreferenced :
                                     \A j \in Unreferenced : i <= j])

\* C27 witness: the run has failed in the pairing pass on a release without
\* sourceRef.kind that stands after a release with a repository, and no
\* call was made.
C27_Witness ==
  /\ pc = "failed"
  /\ err.stage = "unable to find repository for HelmRelease"
  /\ log = << >>
  /\ \E i \in Unreferenced :
       \E j \in 1..(i - 1) :
         /\ IsHelmRelease(nodes[j])
         /\ getRepositoryForHelmRelease(nodes, nodes[j]).repo # Nil

\* The chart object has, at every depth, a loaded dependency for every
\* dependency with a repository that the chart files of its name declare.
RECURSIVE TreeLoaded(_)
TreeLoaded(chart) ==
  LET declared == GitTree(GitURL)[Path("charts", heap[chart].name)].dependencies IN
  \A d \in 1..Len(declared) :
    declared[d].Repository # << >> =>
      \E j \in 1..Len(heap[chart].deps) :
        /\ heap[heap[chart].deps[j]].name = declared[d].Name
        /\ TreeLoaded(heap[chart].deps[j])

\* C28: every chart held in the chart cache has a loaded dependency, at
\* every depth, for every dependency with a repository that the chart
\* declares, and the run that has failed on the load of a chart holds no
\* entry under the fingerprint of that chart.
C28_CachedChartsComplete ==
  chartCache # NilCache =>
    /\ \A key \in DOMAIN chartCache : TreeLoaded(chartCache[key])
    /\ (ExpansionFailed /\ pairs[next].repo # Nil) =>
         GitChartKey(pairs[next].repo.url, pairs[next].release.chart,
                     normalizeGitReference(pairs[next].repo.ref))
           \notin DOMAIN chartCache

\* C29: no load of a chart dereferences an absent parent context: the
\* run of a release whose chart, loaded by the HTTP or the OCI loader,
\* declares a dependency with a file scheme does not crash.
C29_ParentContextPresent == pc # "panicked"
\* C30: the load of the chart of every release returns, with the chart
\* tree or with an error, also when the dependencies reachable from the
\* chart lead back to a chart that is being loaded, with and without the
\* chart cache.
C30_LoadTerminates == pc # "hung"
====
